---------------------------- MODULE Spec2Model ----------------------------
(***************************************************************************)
(* A model of the texel compositor of voltorb (src/src/term): the Canvas   *)
(* with its retained frame buffer, Canvas::winch, Canvas::render           *)
(* (compositing of layers, row diff against the retained frame, writes to  *)
(* the Tty), together with the parts of Texel, Style and AnsiTty::write    *)
(* that render depends on, and of Style with its accessors, functional     *)
(* updates, equality and diff; of Style::texels_from_str, of               *)
(* Layer::bounding_box, of AnsiTty::write down to the commands it sends,   *)
(* of Game::generate_board and Game::interact (src/src/game/mod.rs) and of *)
(* the event loop of main (src/src/main.rs).                               *)
(***************************************************************************)
EXTENDS Naturals, Sequences, FiniteSets

(***************************************************************************)
(* Bounds of the model.                                                    *)
(***************************************************************************)
\* Viewports have 1..MaxCols columns and 1..MaxRows rows.
MaxCols == 3

MaxRows == 2

\* The longest layer sequence handed to one Canvas::render in SpecCompose.
MaxLayers == 2

\* A render may be made to fail at its k-th Tty::write call, k in 1..MaxFailAt.
MaxFailAt == 2

Min(a, b) == IF a < b THEN a ELSE b

Max(a, b) == IF a > b THEN a ELSE b

(***************************************************************************)
(* Style and Texel (src/src/term/texel.rs).  A Style keeps the two color   *)
(* fields and the Meta flag set; a Texel is an optional glyph and a Style. *)
(* Equality of records is the derived PartialEq of the two structs.        *)
(***************************************************************************)
StyleNew == [fg |-> "DkBlack", bg |-> "DkBlack", meta |-> {"FgReset", "BgReset"}]

\* A with_fg that sets the color and leaves the reset flag as it finds it.
StyleWithFgSticky(s, color) ==
  IF color = "None"
    THEN [s EXCEPT !.meta = @ \cup {"FgReset"}]
    ELSE [s EXCEPT !.fg = color]

\* color is a Color name or "None" (the Option<Color> the method takes).
StyleWithFg(s, color) ==
  IF color = "None"
    THEN [s EXCEPT !.meta = (@ \ {"FgReset"}) \cup {"FgReset"}]
    ELSE [s EXCEPT !.meta = @ \ {"FgReset"}, !.fg = color]

\* Style::fg: "None" when the foreground is reset, the color otherwise.
StyleFg(s) == IF "FgReset" \in s.meta THEN "None" ELSE s.fg

StyleBg(s) == IF "BgReset" \in s.meta THEN "None" ELSE s.bg

StyleWithBg(s, color) ==
  IF color = "None"
    THEN [s EXCEPT !.meta = (@ \ {"BgReset"}) \cup {"BgReset"}]
    ELSE [s EXCEPT !.meta = @ \ {"BgReset"}, !.bg = color]

StyleWeight(s) ==
  IF "Bold" \in s.meta THEN "Bold" ELSE IF "Dim" \in s.meta THEN "Light" ELSE "Normal"

StyleWithWeight(s, weight) ==
  [s EXCEPT !.meta = (@ \ {"Bold", "Dim"}) \cup
                       (IF weight = "Bold" THEN {"Bold"}
                        ELSE IF weight = "Light" THEN {"Dim"} ELSE {})]

\* A diff that compares the color fields and the flags as they are stored.
StyleDiffRaw(self, into) ==
  [fg     |-> IF self.fg # into.fg \/ ("FgReset" \in self.meta) # ("FgReset" \in into.meta)
                THEN <<StyleFg(into)>> ELSE <<>>,
   bg     |-> IF self.bg # into.bg \/ ("BgReset" \in self.meta) # ("BgReset" \in into.meta)
                THEN <<StyleBg(into)>> ELSE <<>>,
   weight |-> IF StyleWeight(self) # StyleWeight(into) THEN <<StyleWeight(into)>> ELSE <<>>]

\* Style::diff: per attribute, <<>> for no change (None) and <<v>> for a
\* change to v (Some(v)).
StyleDiff(self, into) ==
  [fg     |-> IF StyleFg(self) # StyleFg(into) THEN <<StyleFg(into)>> ELSE <<>>,
   bg     |-> IF StyleBg(self) # StyleBg(into) THEN <<StyleBg(into)>> ELSE <<>>,
   weight |-> IF StyleWeight(self) # StyleWeight(into) THEN <<StyleWeight(into)>> ELSE <<>>]

TexelNew(glyph) == [glyph |-> glyph, style |-> StyleNew]

\* Option<char>::None is the glyph "none".
TexelEmpty == [glyph |-> "none", style |-> StyleNew]

\* A with_style that hands the texel back as it came.
TexelKeepStyle(t, style) == t

TexelWithStyle(t, style) == [t EXCEPT !.style = style]

TexelFg(t) == StyleFg(t.style)

TexelBg(t) == StyleBg(t.style)

TexelWeight(t) == StyleWeight(t.style)

TexelWithBg(t, color) == [t EXCEPT !.style = StyleWithBg(@, color)]

TexelWithFg(t, color) == [t EXCEPT !.style = StyleWithFg(@, color)]

\* A compositing loop that copies every source texel, glyph or no glyph.
OpaqueAlways(src) == TRUE

\* src.glyph().is_some() of the compositing loop.
Opaque(src) == src.glyph # "none"

(***************************************************************************)
(* Cell (src/src/term/tty.rs): a zero-indexed <<column, row>> pair.        *)
(***************************************************************************)
FromXy(col, row) == <<col, row>>

Col(cell) == cell[1]

Row(cell) == cell[2]

(***************************************************************************)
(* The inputs: viewports, and layers built from a small palette of texels. *)
(***************************************************************************)
Viewports == {FromXy(c, r) : c \in 1..MaxCols, r \in 1..MaxRows}

TxA == TexelNew("a")

TxB == TexelWithFg(TexelNew("b"), "DkRed")

\* A glyph-less texel with a non-default style.
TxT == TexelWithFg(TexelEmpty, "DkRed")

\* <<stride, data>>: a single opaque cell, a 2x2 block mixing opaque and
\* glyph-less texels, a glyph-less row of two, an opaque column of two.
Shapes ==
  { <<1, <<TxA>>>>,
    <<2, <<TxB, TxT, TexelEmpty, TxA>>>>,
    <<2, <<TxT, TexelEmpty>>>>,
    <<1, <<TxB, TxA>>>> }

\* The first two of them.
BaseShapes ==
  { <<1, <<TxA>>>>,
    <<2, <<TxB, TxT, TexelEmpty, TxA>>>> }

\* The layers of the given shapes, at every origin up to the largest viewport.
LayersOf(shapes) ==
  { [origin |-> FromXy(c, r), stride |-> sh[1], data |-> sh[2]] :
      c \in 0..(MaxCols - 1), r \in 0..(MaxRows - 1), sh \in shapes }

\* The sequences of at most n layers of the given shapes.
RECURSIVE Scenes(_, _)
Scenes(shapes, n) ==
  IF n = 0
    THEN {<<>>}
    ELSE LET shorter == Scenes(shapes, n - 1) IN
         shorter \cup {Append(ls, l) : ls \in {s \in shorter : Len(s) = n - 1},
                                       l \in LayersOf(shapes)}

(***************************************************************************)
(* Vec<Texel> capacity, as Canvas::new and Canvas::winch drive it.  The    *)
(* model keeps the capacity beside the buffer.  Vec::shrink_to(min) drops  *)
(* the capacity to max(len, min) when it is larger; Vec::reserve(n) does   *)
(* nothing when capacity - len >= n, and otherwise grows to                *)
(* max(2 * capacity, len + n, 4), 4 being the smallest non-zero capacity   *)
(* of a Vec of 8-byte elements.                                            *)
(***************************************************************************)
ShrinkTo(capacity, len, min_capacity) ==
  IF capacity > min_capacity THEN Max(len, min_capacity) ELSE capacity

Reserve(capacity, len, additional) ==
  IF capacity - len >= additional
    THEN capacity
    ELSE Max(4, Max(capacity * 2, len + additional))

\* The capacity Canvas::winch leaves, from the capacity before and the new
\* viewport; the buffer has just been cleared, so its length is 0.
WinchCapacity(capacity, vp) ==
  LET new_cap == Col(vp) * Row(vp) IN
  IF new_cap < capacity \div 2
    THEN ShrinkTo(capacity, 0, new_cap)
    ELSE IF new_cap >= capacity
      THEN Reserve(capacity, 0, new_cap - capacity)
      ELSE capacity

(***************************************************************************)
(* slice::chunks(x) over a buffer of len texels: the number of chunks, and *)
(* the length of chunk r (0-based); the last chunk may be short.           *)
(***************************************************************************)
NumChunks(len, x) == (len + x - 1) \div x

ChunkLen(len, x, r) == Min(x, len - r * x)

\* Chunk r (0-based) of seq.
Chunk(seq, x, r) == SubSeq(seq, r * x + 1, r * x + ChunkLen(Len(seq), x, r))

\* iter::repeat(t).take(n), collected.
RECURSIVE Repeat(_, _)
Repeat(t, n) == IF n = 0 THEN <<>> ELSE Append(Repeat(t, n - 1), t)

\* iter::repeat(Texel::empty()).take(n)
EmptyFrame(n) == Repeat(TexelEmpty, n)

\* A scratch buffer that starts from the retained frame when there is one.
ScratchMerged(capacity, old) == IF old.some THEN old.frame ELSE EmptyFrame(capacity)

\* The scratch buffer render composites into: self.buffer when it is empty,
\* a side buffer of the same capacity otherwise, extended with capacity empty
\* texels.  old is [some |-> BOOLEAN, frame |-> the prior frame].
ScratchBuffer(capacity, old) == EmptyFrame(capacity)

(***************************************************************************)
(* Canvas::render, compositing (canvas.rs 115-131).                        *)
(***************************************************************************)
\* The loop with the `if ox >= x` test left out.
OffscreenNever(ox, x) == FALSE

\* if ox >= x { continue; }
Offscreen(ox, x) == ox >= x

\* l.data.chunks(l.stride): chunk k (0-based) of the layer's data.
SrcChunk(l, k) == Chunk(l.data, l.stride, k)

\* The inner loop: zip(dst[ox..].iter_mut(), src), dst[ox..] being the n
\* buffer cells after index base; an opaque source texel is copied, a
\* glyph-less one is passed over.
RECURSIVE ZipCells(_, _, _, _, _)
ZipCells(buf, base, n, src, i) ==
  IF i > Min(n, Len(src))
    THEN buf
    ELSE ZipCells(IF Opaque(src[i]) THEN [buf EXCEPT ![base + i] = src[i]] ELSE buf,
                  base, n, src, i + 1)

\* The outer loop: zip(buffer.chunks_mut(x).skip(oy), l.data.chunks(stride)),
\* at its k-th pair (0-based).  dst[ox..] panics when the chunk is shorter
\* than ox, which only the short last chunk of the buffer can be.
RECURSIVE ZipRows(_, _, _, _)
ZipRows(buf, l, x, k) ==
  LET ox == Col(l.origin)
      r  == Row(l.origin) + k
      len == Len(buf)
  IN IF r >= NumChunks(len, x) \/ k >= NumChunks(Len(l.data), l.stride)
       THEN [panic |-> FALSE, buf |-> buf]
       ELSE IF ox > ChunkLen(len, x, r)
         THEN [panic |-> TRUE, buf |-> buf]
         ELSE ZipRows(ZipCells(buf, r * x + ox, ChunkLen(len, x, r) - ox, SrcChunk(l, k), 1),
                      l, x, k + 1)

\* One iteration of `for l in layers`.  chunks(0) panics on a zero stride.
CompositeLayer(buf, l, x) ==
  IF Offscreen(Col(l.origin), x)
    THEN [panic |-> FALSE, buf |-> buf]
    ELSE IF l.stride = 0
      THEN [panic |-> TRUE, buf |-> buf]
      ELSE ZipRows(buf, l, x, 0)

\* The whole loop over the layers, from layer k on: the scratch buffer after
\* each layer is appended to stages; a panic ends the loop.
RECURSIVE CompositeFrom(_, _, _, _, _)
CompositeFrom(buf, stages, ls, k, x) ==
  IF k > Len(ls)
    THEN [panic |-> FALSE, buf |-> buf, stages |-> stages]
    ELSE LET res == CompositeLayer(buf, ls[k], x) IN
         IF res.panic
           THEN [panic |-> TRUE, buf |-> res.buf, stages |-> Append(stages, res.buf)]
           ELSE CompositeFrom(res.buf, Append(stages, res.buf), ls, k + 1, x)

(***************************************************************************)
(* Canvas::render, diff and writes (canvas.rs 133-159).  A write call is   *)
(* [start |-> cell, texels |-> slice].                                     *)
(***************************************************************************)
\* A write call that starts at the left edge whatever run it carries.
WriteCallAtRowStart(col, row, run) == [start |-> FromXy(0, row), texels |-> run]

WriteCall(col, row, run) == [start |-> FromXy(col, row), texels |-> run]

\* The flush after the scan of a row: `if same_at_last_boundary`.
FlushAtEnd(same_at_last_boundary) == same_at_last_boundary

\* The scan of row i against the prior frame, at column j (0-based), with
\* the write calls issued so far in acc.
RECURSIVE ScanRow(_, _, _, _, _, _, _)
ScanRow(line, oldline, i, j, last_boundary, same_at_last_boundary, acc) ==
  IF j >= Len(line)
    THEN IF FlushAtEnd(same_at_last_boundary)
           THEN Append(acc, WriteCall(last_boundary, i,
                                      SubSeq(line, last_boundary + 1, Len(line))))
           ELSE acc
    ELSE LET same == (oldline[j + 1] = line[j + 1]) IN
         IF same = same_at_last_boundary
           THEN ScanRow(line, oldline, i, j + 1, last_boundary, same_at_last_boundary, acc)
           ELSE ScanRow(line, oldline, i, j + 1, j, same,
                        IF same
                          THEN Append(acc, WriteCall(last_boundary, i,
                                                     SubSeq(line, last_boundary + 1, j)))
                          ELSE acc)

\* The write calls of row i: the scan when there is a prior frame, the whole
\* line otherwise.  old is [some |-> BOOLEAN, frame |-> the prior frame].
RowWrites(buf, old, x, i) ==
  LET line == Chunk(buf, x, i) IN
  IF old.some
    THEN ScanRow(line, SubSeq(old.frame, i * x + 1, i * x + Len(line)), i, 0, 0, TRUE, <<>>)
    ELSE <<WriteCall(0, i, line)>>

\* for (i, line) in buffer.chunks(x).enumerate(): the calls of rows i.. in order.
RECURSIVE AllWrites(_, _, _, _)
AllWrites(buf, old, x, i) ==
  IF i >= NumChunks(Len(buf), x)
    THEN <<>>
    ELSE RowWrites(buf, old, x, i) \o AllWrites(buf, old, x, i + 1)

(***************************************************************************)
(* Tty::write as AnsiTty implements it (tty.rs 271-329), on a terminal of  *)
(* the canvas's viewport: nothing is drawn for an empty run or a start     *)
(* cell outside the viewport, and drawing stops at the end of the row.     *)
(* The display is the row-major sequence of what each cell shows.          *)
(***************************************************************************)
\* What a cell shows when nothing was drawn on it since the terminal was
\* set up or resized.
Unknown == [glyph |-> "?", style |-> StyleNew]

BlankDisplay(vp) == Repeat(Unknown, Col(vp) * Row(vp))

\* The number of texels AnsiTty::write draws.
Drawn(vp, w) ==
  IF Len(w.texels) = 0 \/ Col(w.start) >= Col(vp) \/ Row(w.start) >= Row(vp)
    THEN 0
    ELSE Min(Len(w.texels), Col(vp) - Col(w.start))

TtyWrite(disp, vp, w) ==
  LET base == Row(w.start) * Col(vp) + Col(w.start)
      n    == Drawn(vp, w)
  IN IF n = 0
       THEN disp
       ELSE SubSeq(disp, 1, base) \o SubSeq(w.texels, 1, n)
              \o SubSeq(disp, base + n + 1, Len(disp))

\* A render that goes on with the calls after the one that failed.
IssuedPastFailure(calls, fail_at) == calls

\* tty.write(..)?: the calls render issues when its fail_at-th call fails,
\* the failed one being the last.
Issued(calls, fail_at) == SubSeq(calls, 1, fail_at)

\* The display after the first n calls of ws.
RECURSIVE TtyWriteAll(_, _, _, _)
TtyWriteAll(disp, vp, ws, n) ==
  IF n = 0 THEN disp ELSE TtyWrite(TtyWriteAll(disp, vp, ws, n - 1), vp, ws[n])

(***************************************************************************)
(* The state: the Canvas, the terminal, and a record of the last render.   *)
(***************************************************************************)
VARIABLES
  viewport,   \* Canvas.viewport
  buffer,     \* Canvas.buffer, the retained frame (empty: no prior frame)
  capacity,   \* Canvas.buffer.capacity()
  display,    \* what the terminal shows
  status,     \* how the last call ended: "new", "winched", "ok", "err", "panic"
  layers,     \* the layers handed to the last render
  prior,      \* `old` of the last render: [some, frame]
  stages,     \* the scratch buffer of the last render, before and after each layer
  writes,     \* the Tty::write calls of the last render, in order
  failed,     \* which of them failed (its place in writes), 0 if none did
  before,     \* the last render: the status it was called in, whether it was
              \* handed the layers of the render before it, and whether the
              \* winch it followed discarded a retained frame
  style_a,    \* a Style under construction
  style_b,    \* a Style set aside
  style_op,   \* the last call on them: [kind, arg]
  delta,      \* the result of the last style_a.diff(style_b)
  text_style, \* the Style of the last texels_from_str call
  text,       \* the string handed to it, as its sequence of chars
  texels,     \* the texels its iterator yielded, collected
  box_layers, \* the layers of the last Layer::bounding_box call
  box,        \* the pair of cells it returned: [upper, lower]
  term,       \* the terminal: [screen, cursor, pen, touched], touched being
              \* the cells printed on since the last AnsiTty::write began
  ansi_call,  \* the last AnsiTty::write call: [start, texels]
  ansi_out,   \* the commands it sent to stdout, in order
  ansi_ret,   \* what it returned: [ok, n], Ok(n) or an error
  ansi_before,\* the screen when it was called
  ansi_count, \* the number of AnsiTty::write calls so far
  game,       \* the Game: options, level, score, round_score, cards, hints,
              \* selected_card, state (NoGame before Game::new)
  game_op,    \* the last call on it: [kind, had_memo], had_memo telling
              \* whether a card carried a memo when the call was made, and
              \* for an interact call its event and its response
  played,     \* how far the play has gone: [boards, keys], the boards
              \* generated and the keys pressed in Standby so far
  pc,         \* where main is: "first_render", "loop", "winch_render",
              \* "interact", "render", "exit"
  tty_size,   \* the size of the terminal window
  events,     \* the events the terminal has signalled and poll has not
              \* returned yet, oldest first
  interact,   \* main's `interact`
  wait,       \* main's `wait`: TRUE for Some(duration), FALSE for None
  event,      \* main's `event`, the one handed to game.interact
  polled,     \* whether main called poll in this turn of the loop
  render_log  \* the last canvas.render of main: [at, viewport, tty_size,
              \* pending, polled]

canvas_vars == <<viewport, buffer, capacity, display, status, layers, prior, stages, writes,
                 failed, before>>

style_vars == <<style_a, style_b, style_op, delta>>

text_vars == <<text_style, text, texels>>

box_vars == <<box_layers, box>>

tty_vars == <<term, ansi_call, ansi_out, ansi_ret, ansi_before, ansi_count>>

game_vars == <<game, game_op, played>>

aux_vars == <<text_vars, box_vars, tty_vars, game_vars>>

main_vars == <<pc, tty_size, events, interact, wait, event, polled, render_log>>

vars == <<canvas_vars, style_vars, aux_vars, main_vars>>

NoOp == [kind |-> "none", arg |-> "None"]

NoDelta == [fg |-> <<>>, bg |-> <<>>, weight |-> <<>>]

NoPrior == [some |-> FALSE, frame |-> <<>>]

\* The size of the terminal AnsiTty::write draws on in SpecTty.
TtyWidth == 2

TtyHeight == 2

\* A cell of the screen: the character it shows and the colors it was
\* printed in, as crossterm names them.
TermBlank == [glyph |-> " ", fg |-> "Reset", bg |-> "Reset"]

\* The terminal after with_tty set it up: cleared, colors reset.
TermNew ==
  [screen  |-> Repeat(TermBlank, TtyWidth * TtyHeight),
   cursor  |-> FromXy(0, 0),
   pen     |-> [fg |-> "Reset", bg |-> "Reset"],
   touched |-> <<>>]

\* Option<Event>::None.
NoEvent == [kind |-> "none", vp |-> FromXy(0, 0)]

\* main has not rendered yet.
NoRenderLog ==
  [at |-> "none", viewport |-> FromXy(0, 0), tty_size |-> FromXy(0, 0),
   pending |-> FALSE, polled |-> FALSE]

\* The Game before main calls Game::new.
NoGame == [level |-> 0]

NoGameOp == [kind |-> "none", had_memo |-> FALSE]

NoPlay == [boards |-> 0, keys |-> 0]

\* usize::MAX, at the width of the model's integers.
UsizeMax == 2147483647

\* What bounding_box returns for no layers at all.
NoBox == [upper |-> FromXy(UsizeMax, UsizeMax), lower |-> FromXy(0, 0)]

NoRender == [status |-> "none", same_layers |-> FALSE, discarded |-> FALSE]

\* Canvas::new(vp) on a freshly set up terminal.
Init ==
  \E vp \in Viewports :
    /\ viewport = vp
    /\ buffer = <<>>
    /\ capacity = Col(vp) * Row(vp)
    /\ display = BlankDisplay(vp)
    /\ status = "new"
    /\ layers = <<>>
    /\ prior = NoPrior
    /\ stages = <<>>
    /\ writes = <<>>
    /\ failed = 0
    /\ before = NoRender
    /\ style_a = StyleNew
    /\ style_b = StyleNew
    /\ style_op = NoOp
    /\ delta = NoDelta
    /\ text_style = StyleNew
    /\ text = <<>>
    /\ texels = <<>>
    /\ box_layers = <<>>
    /\ box = NoBox
    /\ term = TermNew
    /\ ansi_call = [start |-> FromXy(0, 0), texels |-> <<>>]
    /\ ansi_out = <<>>
    /\ ansi_ret = [ok |-> TRUE, n |-> 0]
    /\ ansi_before = TermNew.screen
    /\ ansi_count = 0
    /\ game = NoGame
    /\ game_op = NoGameOp
    /\ played = NoPlay
    /\ pc = "first_render"
    /\ tty_size = vp
    /\ events = <<>>
    /\ interact = TRUE
    /\ wait = TRUE
    /\ event = NoEvent
    /\ polled = FALSE
    /\ render_log = NoRenderLog

\* A winch that leaves a blank retained frame of the new capacity where the
\* canvas held a frame, instead of none.
WinchRetaining(vp) ==
  /\ status \notin {"err", "panic"}
  /\ viewport' = vp
  /\ buffer' = IF Len(buffer) = 0 THEN <<>> ELSE EmptyFrame(WinchCapacity(capacity, vp))
  /\ capacity' = WinchCapacity(capacity, vp)
  /\ display' = BlankDisplay(vp)
  /\ status' = "winched"
  /\ layers' = <<>>
  /\ prior' = NoPrior
  /\ stages' = <<>>
  /\ writes' = <<>>
  /\ failed' = 0
  /\ before' = [NoRender EXCEPT !.discarded = Len(buffer) > 0]
  /\ tty_size' = vp
  /\ UNCHANGED <<style_vars, aux_vars>>
  /\ UNCHANGED <<pc, events, interact, wait, event, polled, render_log>>

\* Canvas::winch(vp): what it does to the canvas, and the display of a
\* terminal of that size.
CanvasWinch(vp) ==
  /\ status \notin {"err", "panic"}
  /\ viewport' = vp
  /\ buffer' = <<>>
  /\ capacity' = WinchCapacity(capacity, vp)
  /\ display' = BlankDisplay(vp)
  /\ status' = "winched"
  /\ layers' = <<>>
  /\ prior' = NoPrior
  /\ stages' = <<>>
  /\ writes' = <<>>
  /\ failed' = 0
  /\ before' = [NoRender EXCEPT !.discarded = Len(buffer) > 0]
  /\ UNCHANGED <<style_vars, aux_vars>>

\* The terminal is resized to vp and Canvas::winch(vp) is called at once.
Winch(vp) ==
  /\ CanvasWinch(vp)
  /\ tty_size' = vp
  /\ UNCHANGED <<pc, events, interact, wait, event, polled, render_log>>

\* Canvas::render(ls, tty), whose fail_at-th Tty::write call fails (none
\* fails when fail_at is 0 or exceeds the number of calls).  A failed call
\* draws nothing.  On a panic or an error self.buffer is left as the call
\* found it when a side buffer was used, and holds the scratch buffer when
\* it was itself the scratch buffer.  main propagates the error of a render
\* and exits (main.rs 54, 64, 88), and a panic aborts: nothing is called on
\* the canvas after either.
CanvasRender(ls, fail_at) ==
  LET x     == Col(viewport)
      old   == IF Len(buffer) = 0 THEN NoPrior ELSE [some |-> TRUE, frame |-> buffer]
      comp  == CompositeFrom(ScratchBuffer(capacity, old), <<ScratchBuffer(capacity, old)>>, ls, 1, x)
      frame == comp.buf
      calls == AllWrites(frame, old, x, 0)
      fails == fail_at >= 1 /\ fail_at <= Len(calls)
      kept  == IF old.some THEN buffer ELSE frame
  IN /\ status \notin {"err", "panic"}
     /\ layers' = ls
     /\ prior' = old
     /\ stages' = comp.stages
     /\ before' = [status |-> status, same_layers |-> (status = "ok" /\ ls = layers),
                   discarded |-> (status = "winched" /\ before.discarded)]
     /\ UNCHANGED <<viewport, capacity>>
     /\ UNCHANGED <<style_vars, aux_vars>>
     /\ IF comp.panic
          THEN /\ status' = "panic"
               /\ buffer' = kept
               /\ writes' = <<>>
               /\ failed' = 0
               /\ UNCHANGED display
          ELSE IF fails
            THEN /\ status' = "err"
                 /\ buffer' = kept
                 /\ writes' = Issued(calls, fail_at)
                 /\ failed' = fail_at
                 /\ display' = TtyWriteAll(display, viewport, calls, fail_at - 1)
            ELSE /\ status' = "ok"
                 /\ buffer' = frame
                 /\ writes' = calls
                 /\ failed' = 0
                 /\ display' = TtyWriteAll(display, viewport, calls, Len(calls))

\* Canvas::render(ls, tty), called on its own.
Render(ls, fail_at) == CanvasRender(ls, fail_at) /\ UNCHANGED main_vars

\* A canvas through resizes and renders of at most one layer of the base
\* shapes, any write of which may fail.
Next ==
  \/ \E vp \in Viewports : Winch(vp)
  \/ \E ls \in Scenes(BaseShapes, 1), fail_at \in 0..MaxFailAt : Render(ls, fail_at)

Spec == Init /\ [][Next]_vars

\* A canvas through resizes up to its first paint, of up to MaxLayers layers
\* of any shape.
NextCompose ==
  \/ \E vp \in Viewports : status \in {"new", "winched"} /\ Winch(vp)
  \/ \E ls \in Scenes(Shapes, MaxLayers) : status \in {"new", "winched"} /\ Render(ls, 0)

SpecCompose == Init /\ [][NextCompose]_vars

(***************************************************************************)
(* What the claims speak of: the cells of the viewport, the frame the last *)
(* render composited, and the frame it was diffed against.                 *)
(***************************************************************************)
ViewCols == 0..(Col(viewport) - 1)

ViewRows == 0..(Row(viewport) - 1)

\* The index of cell (c, r) in a row-major frame of the viewport's width.
Idx(c, r) == r * Col(viewport) + c + 1

\* The frame the last render composited.
Frame == stages[Len(stages)]

InFrame(c, r) == Idx(c, r) <= Len(Frame)

\* Cell (c, r) of the composited frame differs from the prior frame.
Differs(c, r) == InFrame(c, r) /\ Frame[Idx(c, r)] # prior.frame[Idx(c, r)]

\* The write calls of the last render that start in row r.
CallsOfRow(r) == {k \in 1..Len(writes) : Row(writes[k].start) = r}

\* Row r of the composited frame over the whole width of the viewport (the
\* cells the frame lacks left out).
FrameRow(r) == SubSeq(Frame, Idx(0, r), Min(Idx(0, r) + Col(viewport) - 1, Len(Frame)))

\* Call k is the one full-row write of row r.
FullRowCall(k, r) ==
  /\ writes[k].start = FromXy(0, r)
  /\ Len(writes[k].texels) = Col(viewport)
  /\ writes[k].texels = FrameRow(r)

(***************************************************************************)
(* C1.  Display consistency: after every successful render the terminal    *)
(* shows, at every cell of the viewport, the frame composited from that    *)
(* render's layers.                                                        *)
(***************************************************************************)
C1_DisplayConsistency ==
  status = "ok" =>
    \A c \in ViewCols, r \in ViewRows :
      InFrame(c, r) /\ display[Idx(c, r)] = Frame[Idx(c, r)]

(***************************************************************************)
(* C2.  When a prior frame exists, render issues exactly one write call    *)
(* per maximal contiguous run of differing cells of each row, starting at  *)
(* the first cell of the run and carrying exactly the cells of the run.    *)
(***************************************************************************)
\* Cells c..e of row r are a maximal run of differing cells.
MaximalRun(c, e, r) ==
  /\ c <= e
  /\ \A j \in c..e : Differs(j, r)
  /\ c = 0 \/ ~Differs(c - 1, r)
  /\ e = Col(viewport) - 1 \/ ~Differs(e + 1, r)

\* Call k starts at cell c of row r and carries cells c..e of the frame.
RunCall(k, c, e, r) ==
  /\ writes[k].start = FromXy(c, r)
  /\ Len(writes[k].texels) = e - c + 1
  /\ \A j \in c..e : writes[k].texels[j - c + 1] = Frame[Idx(j, r)]

C2_OneWritePerRun ==
  (status = "ok" /\ prior.some) =>
    \A r \in ViewRows : \A c \in ViewCols, e \in ViewCols :
      MaximalRun(c, e, r) =>
        Cardinality({k \in CallsOfRow(r) : RunCall(k, c, e, r)}) = 1

(***************************************************************************)
(* C3.  When a prior frame exists and a row has a differing cell, no write *)
(* call of that row carries a cell whose texel equals the prior frame's.   *)
(***************************************************************************)
C3_UnchangedNotResent ==
  (status = "ok" /\ prior.some) =>
    \A k \in 1..Len(writes) :
      LET w == writes[k] IN
      (\E c \in ViewCols : Differs(c, Row(w.start))) =>
        \A i \in 1..Len(w.texels) :
          w.texels[i] # prior.frame[Idx(Col(w.start) + i - 1, Row(w.start))]

(***************************************************************************)
(* C4.  A render handed the layers of the render before it, with no winch  *)
(* between, calls the writer exactly once per row, at (0, row) and with    *)
(* the whole row, and retains the frame retained before; and any row with  *)
(* no differing cell gets exactly one write, of the full row.              *)
(***************************************************************************)
C4_UnchangedRowsRewritten ==
  /\ (status = "ok" /\ before.same_layers) =>
       /\ \A r \in ViewRows :
            /\ Cardinality(CallsOfRow(r)) = 1
            /\ \A k \in CallsOfRow(r) : FullRowCall(k, r)
       /\ buffer = prior.frame
  /\ (status = "ok" /\ prior.some) =>
       \A r \in ViewRows :
         (\A c \in ViewCols : ~Differs(c, r)) =>
           /\ Cardinality(CallsOfRow(r)) = 1
           /\ \A k \in CallsOfRow(r) : FullRowCall(k, r)

(***************************************************************************)
(* C5.  With no prior frame (the first render after Canvas::new or after a *)
(* winch), render issues for each row exactly one write, starting at       *)
(* (0, row) and carrying the entire composited row.                        *)
(***************************************************************************)
C5_FirstPaintWritesEachRow ==
  (status = "ok" /\ ~prior.some) =>
    \A r \in ViewRows :
      /\ Cardinality(CallsOfRow(r)) = 1
      /\ \A k \in CallsOfRow(r) : FullRowCall(k, r)

(***************************************************************************)
(* C6.  Full repaint after resize: a render that follows a winch writes    *)
(* every row of the new viewport over its full width.                      *)
(***************************************************************************)
C6_FullRepaintAfterWinch ==
  (status = "ok" /\ before.status = "winched") =>
    \A r \in ViewRows :
      \E k \in CallsOfRow(r) :
        /\ Col(writes[k].start) = 0
        /\ Len(writes[k].texels) = Col(viewport)

(***************************************************************************)
(* Layers as the claims read them: a layer's data is a grid of rows of      *)
(* stride texels whose top-left cell is the layer's origin.                 *)
(***************************************************************************)
\* The index in l.data of the texel layer l places on cell (c, r); 0 if none.
DataIdx(l, c, r) ==
  IF /\ c >= Col(l.origin)
     /\ c - Col(l.origin) < l.stride
     /\ r >= Row(l.origin)
     /\ (r - Row(l.origin)) * l.stride + (c - Col(l.origin)) < Len(l.data)
    THEN (r - Row(l.origin)) * l.stride + (c - Col(l.origin)) + 1
    ELSE 0

\* Layer l places a glyph-bearing texel on cell (c, r).
OpaqueAt(l, c, r) == DataIdx(l, c, r) # 0 /\ l.data[DataIdx(l, c, r)].glyph # "none"

\* The layers of the last render that place a glyph-bearing texel on (c, r).
Tops(c, r) == {k \in 1..Len(layers) : OpaqueAt(layers[k], c, r)}

\* What painter's order leaves on cell (c, r).
Painted(c, r) ==
  IF Tops(c, r) = {}
    THEN TexelEmpty
    ELSE LET k == CHOOSE t \in Tops(c, r) : \A j \in Tops(c, r) : j <= t
         IN layers[k].data[DataIdx(layers[k], c, r)]

\* The layers the last render took up: all of them, or those up to the one
\* it panicked in.
Composited == 1..(Len(stages) - 1)

\* Every texel of layer l is glyph-less.
GlyphLess(l) == \A i \in 1..Len(l.data) : l.data[i].glyph = "none"

\* The last render panicked while compositing layer k.
PanickedIn(k) == status = "panic" /\ Len(stages) = k + 1

(***************************************************************************)
(* C7.  Painter's order: after a successful render every viewport cell of  *)
(* the composited frame holds the texel of the last layer with a           *)
(* glyph-bearing texel on that cell, and the empty texel if there is none. *)
(***************************************************************************)
C7_PaintersOrder ==
  status = "ok" =>
    \A c \in ViewCols, r \in ViewRows :
      InFrame(c, r) /\ Frame[Idx(c, r)] = Painted(c, r)

(***************************************************************************)
(* C8.  Transparency: compositing a layer never writes a glyph-less texel  *)
(* into the buffer, so a layer whose every texel is glyph-less leaves the  *)
(* buffer as it was before that layer, whatever the style of its texels.   *)
(***************************************************************************)
C8_Transparency ==
  \A k \in Composited :
    /\ \A i \in 1..Len(stages[k]) :
         stages[k + 1][i] # stages[k][i] =>
           \E j \in 1..Len(layers[k].data) :
             layers[k].data[j].glyph # "none" /\ stages[k + 1][i] = layers[k].data[j]
    /\ GlyphLess(layers[k]) => stages[k + 1] = stages[k]

\* A glyph-less texel of a non-default style was laid over a cell that an
\* earlier layer had painted, in a render that went through.
C8_Witness ==
  /\ status = "ok"
  /\ Len(layers) = 2
  /\ GlyphLess(layers[2])
  /\ \E c \in ViewCols, r \in ViewRows :
       /\ InFrame(c, r)
       /\ DataIdx(layers[2], c, r) # 0
       /\ layers[2].data[DataIdx(layers[2], c, r)].style # StyleNew
       /\ stages[2][Idx(c, r)].glyph # "none"
       /\ stages[3][Idx(c, r)] = stages[2][Idx(c, r)]

(***************************************************************************)
(* C9.  Clipping without wraparound: compositing a layer copies each of    *)
(* its glyph-bearing texels to the cell origin + (x, y) when that cell is  *)
(* inside the viewport, changes no other cell of the buffer, and drops     *)
(* what falls right of the last column or below the last row.              *)
(***************************************************************************)
C9_ClippingNoWraparound ==
  /\ status # "panic"
  /\ \A k \in Composited :
       /\ \A c \in ViewCols, r \in ViewRows :
            /\ InFrame(c, r)
            /\ stages[k + 1][Idx(c, r)] =
                 IF OpaqueAt(layers[k], c, r) /\ Col(layers[k].origin) < Col(viewport)
                   THEN layers[k].data[DataIdx(layers[k], c, r)]
                   ELSE stages[k][Idx(c, r)]
       /\ \A i \in 1..Len(stages[k]) :
            i > Col(viewport) * Row(viewport) => stages[k + 1][i] = stages[k][i]

(***************************************************************************)
(* C10.  Off-viewport clipping: a layer whose origin column is at or past  *)
(* the viewport's width is skipped: compositing it changes no cell of the  *)
(* buffer and does not abort the render, and the layer after it is         *)
(* composited as it would be without it.                                   *)
(***************************************************************************)
C10_OffViewportSkipped ==
  \A k \in Composited :
    Col(layers[k].origin) >= Col(viewport) =>
      /\ stages[k + 1] = stages[k]
      /\ ~PanickedIn(k)
      /\ k < Len(layers) =>
           /\ k + 1 \in Composited
           /\ stages[k + 2] = CompositeLayer(stages[k], layers[k + 1], Col(viewport)).buf

\* A layer with glyph-bearing texels and its origin past the last column came
\* first, and the layer after it painted a cell.
C10_Witness ==
  /\ status = "ok"
  /\ Len(layers) = 2
  /\ Col(layers[1].origin) > Col(viewport)
  /\ Row(layers[1].origin) < Row(viewport)
  /\ ~GlyphLess(layers[1])
  /\ stages[2] = stages[1]
  /\ stages[3] # stages[2]

(***************************************************************************)
(* C11.  After every successful render the retained frame is the frame     *)
(* composited from that render's layers alone, on a buffer of empty        *)
(* texels: it replaces the frame retained before and is not merged with    *)
(* it, so a cell of the frame on which no layer of the render places a     *)
(* glyph-bearing texel is retained as the empty texel.                     *)
(***************************************************************************)
\* The column and the row of the cell kept at index i of a row-major frame.
ColOf(i) == (i - 1) % Col(viewport)

RowOf(i) == (i - 1) \div Col(viewport)

C11_RetainedFrameReplaced ==
  status = "ok" =>
    /\ buffer = Frame
    /\ buffer = CompositeFrom(EmptyFrame(Len(buffer)), <<>>, layers, 1, Col(viewport)).buf
    /\ \A i \in 1..Len(buffer) :
         Tops(ColOf(i), RowOf(i)) = {} => buffer[i] = TexelEmpty

\* A render diffed against a frame with a glyph on a cell that none of its
\* own layers paints, and retained the empty texel there.
C11_Witness ==
  /\ status = "ok"
  /\ prior.some
  /\ \E i \in 1..Len(buffer) :
       /\ prior.frame[i].glyph # "none"
       /\ Tops(ColOf(i), RowOf(i)) = {}
       /\ buffer[i] = TexelEmpty

(***************************************************************************)
(* C12.  Buffer size: the scratch buffer every render composites into has  *)
(* exactly viewport.columns * viewport.rows texels, all of them empty at   *)
(* first, and so has the buffer retained after every successful render.    *)
(***************************************************************************)
C12_BufferSize ==
  /\ status \in {"ok", "err", "panic"} =>
       /\ Len(stages[1]) = Col(viewport) * Row(viewport)
       /\ \A i \in 1..Len(stages[1]) : stages[1][i] = TexelEmpty
  /\ status = "ok" => Len(buffer) = Col(viewport) * Row(viewport)

(***************************************************************************)
(* C13.  Canvas::winch(v) sets the viewport to v and discards the retained *)
(* frame: after it the viewport is v and the buffer holds no texels, and   *)
(* the render that follows has no prior frame and takes the full-paint     *)
(* path for every line of its buffer, one write of the whole line at       *)
(* column 0, instead of diffing against the frame retained before.         *)
(***************************************************************************)
\* The writes of the last render are those of the full-paint path, up to the
\* write that failed.
FullPaint ==
  /\ ~prior.some
  /\ \A k \in 1..Len(writes) :
       writes[k] = WriteCall(0, k - 1, Chunk(Frame, Col(viewport), k - 1))
  /\ status = "ok" => Len(writes) = NumChunks(Len(Frame), Col(viewport))

C14_ResizeCapacityPolicy ==
  [][\A vp \in Viewports :
       Winch(vp) =>
         LET cells == Col(vp) * Row(vp) IN
         /\ cells > capacity => capacity' >= cells
         /\ 2 * cells < capacity => capacity' = cells
         /\ (cells <= capacity /\ 2 * cells >= capacity) => capacity' = capacity]_vars

(***************************************************************************)
(* C15.  If a writer call fails during a render, the render returns the    *)
(* error at once: the calls it issued are the calls of that pass up to and *)
(* including the failed one, which comes last and once; none of the calls  *)
(* after it, in the same row or in later rows, is issued.                  *)
(***************************************************************************)
\* The write calls the last render had to issue had none failed.
Calls == AllWrites(Frame, prior, Col(viewport), 0)

C15_WriteFailureAborts ==
  /\ status = "err" =>
       /\ failed >= 1
       /\ failed <= Len(Calls)
       /\ Len(writes) = failed
       /\ \A k \in 1..failed : writes[k] = Calls[k]
  /\ status # "err" => failed = 0

\* The first call of a diffing render failed, with a call for the rest of its
\* row and a call for a later row still to come.
C15_Witness ==
  /\ status = "err"
  /\ prior.some
  /\ Len(writes) = failed
  /\ \E k \in (failed + 1)..Len(Calls) : Row(Calls[k].start) = Row(writes[failed].start)
  /\ \E k \in (failed + 1)..Len(Calls) : Row(Calls[k].start) > Row(writes[failed].start)

(***************************************************************************)
(* Malformed layers: a zero stride, and data that is not a whole number of *)
(* rows.  SpecMalformed is a fresh canvas and its first render, of up to   *)
(* MaxLayers layers, malformed ones among them.                            *)
(***************************************************************************)
MalformedShapes ==
  { <<1, <<TxA>>>>,
    <<0, <<TxA>>>>,
    <<2, <<TxA, TxB, TxA>>>> }

Malformed(l) == l.stride = 0 \/ Len(l.data) % l.stride # 0

NextMalformed ==
  \E ls \in Scenes(MalformedShapes, MaxLayers) : status = "new" /\ Render(ls, 0)

SpecMalformed == Init /\ [][NextMalformed]_vars

(***************************************************************************)
(* C16.  Render fails fast on malformed input: handed a layer whose stride *)
(* is zero or whose data length is not a multiple of its stride, it aborts *)
(* at that layer at the latest, without compositing any of it.             *)
(***************************************************************************)
C16_MalformedLayerAborts ==
  status \in {"ok", "err", "panic"} =>
    \A k \in 1..Len(layers) :
      Malformed(layers[k]) =>
        /\ status = "panic"
        /\ Len(stages) <= k + 1
        /\ PanickedIn(k) => stages[k + 1] = stages[k]

(***************************************************************************)
(* C17.  Every write call a render issues starts at a cell of the current  *)
(* viewport and carries a non-empty slice that ends within that row.       *)
(***************************************************************************)
C17_WritesInsideViewport ==
  \A k \in 1..Len(writes) :
    /\ Col(writes[k].start) < Col(viewport)
    /\ Row(writes[k].start) < Row(viewport)
    /\ Len(writes[k].texels) >= 1
    /\ Col(writes[k].start) + Len(writes[k].texels) <= Col(viewport)

(***************************************************************************)
(* Styles (texel.rs 57-157).  SpecStyle builds a style by any sequence of  *)
(* Style::new, with_fg, with_bg and with_weight calls, sets copies of it   *)
(* aside, and diffs the style under construction against the copy.         *)
(***************************************************************************)
Colors == {"DkBlack", "DkRed"}

\* Option<Color>: a color or None.
OptColors == Colors \cup {"None"}

Weights == {"Normal", "Light", "Bold"}

InitStyle == Init /\ viewport = FromXy(1, 1)

\* style_a = Style::new()
New ==
  /\ style_a' = StyleNew
  /\ style_op' = [kind |-> "new", arg |-> "None"]
  /\ delta' = NoDelta
  /\ UNCHANGED <<style_b, canvas_vars, aux_vars, main_vars>>

\* style_a = style_a.with_fg(color)
WithFg(color) ==
  /\ style_a' = StyleWithFg(style_a, color)
  /\ style_op' = [kind |-> "with_fg", arg |-> color]
  /\ delta' = NoDelta
  /\ UNCHANGED <<style_b, canvas_vars, aux_vars, main_vars>>

\* style_a = style_a.with_bg(color)
WithBg(color) ==
  /\ style_a' = StyleWithBg(style_a, color)
  /\ style_op' = [kind |-> "with_bg", arg |-> color]
  /\ delta' = NoDelta
  /\ UNCHANGED <<style_b, canvas_vars, aux_vars, main_vars>>

\* style_a = style_a.with_weight(weight)
WithWeight(weight) ==
  /\ style_a' = StyleWithWeight(style_a, weight)
  /\ style_op' = [kind |-> "with_weight", arg |-> weight]
  /\ delta' = NoDelta
  /\ UNCHANGED <<style_b, canvas_vars, aux_vars, main_vars>>

\* style_b = style_a (Style is Copy)
SetAside ==
  /\ style_b' = style_a
  /\ style_op' = [kind |-> "copy", arg |-> "None"]
  /\ delta' = NoDelta
  /\ UNCHANGED <<style_a, canvas_vars, aux_vars, main_vars>>

\* delta = style_a.diff(style_b)
Diff ==
  /\ delta' = StyleDiff(style_a, style_b)
  /\ style_op' = [kind |-> "diff", arg |-> "None"]
  /\ UNCHANGED <<style_a, style_b, canvas_vars, aux_vars, main_vars>>

NextStyle ==
  \/ New
  \/ \E color \in OptColors : WithFg(color)
  \/ \E color \in OptColors : WithBg(color)
  \/ \E weight \in Weights : WithWeight(weight)
  \/ SetAside
  \/ Diff

SpecStyle == InitStyle /\ [][NextStyle]_vars

\* The two styles have the same foreground, background and weight.
SameAttributes(s, t) ==
  /\ StyleFg(s) = StyleFg(t)
  /\ StyleBg(s) = StyleBg(t)
  /\ StyleWeight(s) = StyleWeight(t)

(***************************************************************************)
(* C18.  Style equality: two styles built by any sequence of Style::new,   *)
(* with_fg, with_bg and with_weight calls are equal (==, the derived       *)
(* PartialEq: equality of the records) if and only if their fg(), bg() and *)
(* weight() are equal.                                                     *)
(***************************************************************************)
C18_StyleEquality == (style_a = style_b) <=> SameAttributes(style_a, style_b)

(***************************************************************************)
(* C19.  Style::diff(a, b) reports, for foreground, background and weight  *)
(* independently, no change exactly when the attribute's accessor gives    *)
(* the same value for a and b, and the value of b otherwise (for a color,  *)
(* possibly the reset to the default).                                     *)
(***************************************************************************)
C19_DiffByAttribute ==
  style_op.kind = "diff" =>
    /\ (delta.fg = <<>>) <=> (StyleFg(style_a) = StyleFg(style_b))
    /\ delta.fg # <<>> => delta.fg = <<StyleFg(style_b)>>
    /\ (delta.bg = <<>>) <=> (StyleBg(style_a) = StyleBg(style_b))
    /\ delta.bg # <<>> => delta.bg = <<StyleBg(style_b)>>
    /\ (delta.weight = <<>>) <=> (StyleWeight(style_a) = StyleWeight(style_b))
    /\ delta.weight # <<>> => delta.weight = <<StyleWeight(style_b)>>

\* A red foreground was diffed against a reset one, and the backgrounds,
\* both reset after different colors, were reported as unchanged.
C19_Witness ==
  /\ style_op.kind = "diff"
  /\ StyleFg(style_a) = "DkRed"
  /\ StyleFg(style_b) = "None"
  /\ delta.fg = <<"None">>
  /\ StyleBg(style_a) = "None"
  /\ StyleBg(style_b) = "None"
  /\ style_a.bg # style_b.bg
  /\ delta.bg = <<>>

(***************************************************************************)
(* C20.  Style functional updates: s.with_fg(c).fg() = c,                  *)
(* s.with_bg(c).bg() = c and s.with_weight(w).weight() = w for every       *)
(* color-or-None c and every weight w, each update leaving the other two   *)
(* attributes as they were; and Style::new() has no foreground, no         *)
(* background and the Normal weight.                                       *)
(***************************************************************************)
C20_FunctionalUpdates ==
  [][/\ \A c \in OptColors :
          WithFg(c) => /\ StyleFg(style_a') = c
                       /\ StyleBg(style_a') = StyleBg(style_a)
                       /\ StyleWeight(style_a') = StyleWeight(style_a)
     /\ \A c \in OptColors :
          WithBg(c) => /\ StyleBg(style_a') = c
                       /\ StyleFg(style_a') = StyleFg(style_a)
                       /\ StyleWeight(style_a') = StyleWeight(style_a)
     /\ \A w \in Weights :
          WithWeight(w) => /\ StyleWeight(style_a') = w
                           /\ StyleFg(style_a') = StyleFg(style_a)
                           /\ StyleBg(style_a') = StyleBg(style_a)
     /\ New => /\ StyleFg(style_a') = "None"
               /\ StyleBg(style_a') = "None"
               /\ StyleWeight(style_a') = "Normal"]_vars

\* A style with a red background and the Bold weight had its red foreground
\* reset by with_fg(None).
C20_Witness ==
  /\ style_op = [kind |-> "with_fg", arg |-> "None"]
  /\ style_a.fg = "DkRed"
  /\ StyleFg(style_a) = "None"
  /\ StyleBg(style_a) = "DkRed"
  /\ StyleWeight(style_a) = "Bold"

(***************************************************************************)
(* Style::texels_from_str (texel.rs 159-163).  SpecText hands any style    *)
(* the with_ methods can build, and any short string, to the function and  *)
(* collects the iterator it returns.                                       *)
(***************************************************************************)
\* The longest string handed to texels_from_str.
MaxText == 2

Chars == {"a", "b", " "}

RECURSIVE StringsUpTo(_)
StringsUpTo(n) ==
  IF n = 0 THEN {<<>>}
  ELSE LET shorter == StringsUpTo(n - 1)
       IN  shorter \cup {Append(t, c) : t \in shorter, c \in Chars}

Texts == StringsUpTo(MaxText)

\* Every value a Style can take: each color set, or set and then reset.
Styles ==
  { StyleWithWeight(StyleWithBg(StyleWithBg(StyleWithFg(StyleWithFg(StyleNew, f1), f2), b1), b2), w) :
      f1 \in Colors, f2 \in OptColors, b1 \in Colors, b2 \in OptColors, w \in Weights }

\* s.chars().map(move |c| Texel::new(c).with_style(self)), collected.
RECURSIVE StyleTexelsFromStr(_, _)
StyleTexelsFromStr(self, s) ==
  IF s = <<>> THEN <<>>
  ELSE <<TexelWithStyle(TexelNew(Head(s)), self)>> \o StyleTexelsFromStr(self, Tail(s))

InitText == Init /\ viewport = FromXy(1, 1)

\* texels = style.texels_from_str(s).collect()
TexelsFromStr(style, s) ==
  /\ text_style' = style
  /\ text' = s
  /\ texels' = StyleTexelsFromStr(style, s)
  /\ UNCHANGED <<main_vars, canvas_vars, style_vars, box_vars, tty_vars, game_vars>>

NextText == \E style \in Styles, s \in Texts : TexelsFromStr(style, s)

SpecText == InitText /\ [][NextText]_vars

\* C21: texels_from_str yields exactly one texel per character of the text,
\* in order: the i-th texel has the i-th character as its glyph, which is
\* never the transparent glyph, and carries the style the call was made on.
C21_OneTexelPerChar ==
  /\ Len(texels) = Len(text)
  /\ \A i \in 1..Len(text) :
       /\ texels[i].glyph = text[i]
       /\ texels[i].glyph # "none"
       /\ texels[i].style = text_style

\* A two-character string of different characters in a non-default style.
C21_Witness ==
  /\ Len(text) = 2
  /\ text[1] # text[2]
  /\ text_style # StyleNew
  /\ Len(texels) = 2

(***************************************************************************)
(* Layer::antipode and Layer::bounding_box (canvas.rs 22-50).  SpecBox     *)
(* hands bounding_box sequences of one to MaxBoxLayers layers whose data   *)
(* are whole rows of their stride, placed well inside the usize range.     *)
(***************************************************************************)
\* The longest layer sequence handed to one Layer::bounding_box.
MaxBoxLayers == 3

\* A layer reaching one column and one row less far than its last cell.
AntipodeExclusive(l) ==
  FromXy(Col(l.origin) + l.stride - 2, Row(l.origin) + (Len(l.data) \div l.stride) - 2)

AntipodeOf(l) ==
  FromXy(Col(l.origin) + l.stride - 1, Row(l.origin) + (Len(l.data) \div l.stride) - 1)

\* The fold of bounding_box over layers[k..], from the corners so far.
RECURSIVE BoundingBoxFrom(_, _, _, _)
BoundingBoxFrom(upper, lower, ls, k) ==
  IF k > Len(ls) THEN [upper |-> upper, lower |-> lower]
  ELSE LET layer == ls[k] IN
       BoundingBoxFrom(
         FromXy(Min(Col(upper), Col(layer.origin)), Min(Row(upper), Row(layer.origin))),
         FromXy(Max(Col(lower), Col(AntipodeOf(layer))), Max(Row(lower), Row(AntipodeOf(layer)))),
         ls, k + 1)

BoundingBox(ls) == BoundingBoxFrom(FromXy(UsizeMax, UsizeMax), FromXy(0, 0), ls, 1)

\* <<stride, data>>: 9 columns by 5 rows, 2 by 2.
BoxShapes ==
  { <<9, Repeat(TxA, 45)>>,
    <<2, <<TxB, TxT, TexelEmpty, TxA>>>> }

BoxLayers ==
  { [origin |-> FromXy(c, r), stride |-> sh[1], data |-> sh[2]] :
      c \in {0, 10}, r \in {0, 5}, sh \in BoxShapes }

RECURSIVE BoxScenes(_)
BoxScenes(n) ==
  IF n = 0 THEN {<<>>}
  ELSE LET shorter == BoxScenes(n - 1) IN
       shorter \cup {Append(ls, l) : ls \in {s \in shorter : Len(s) = n - 1}, l \in BoxLayers}

InitBox == Init /\ viewport = FromXy(1, 1)

\* box = Layer::bounding_box(&ls)
BoundingBoxOf(ls) ==
  /\ box_layers' = ls
  /\ box' = BoundingBox(ls)
  /\ UNCHANGED <<main_vars, canvas_vars, style_vars, text_vars, tty_vars, game_vars>>

NextBox == \E ls \in BoxScenes(MaxBoxLayers) \ {<<>>} : BoundingBoxOf(ls)

SpecBox == InitBox /\ [][NextBox]_vars

\* The three 9x5 layers at (0,0), (10,0) and (0,5).
ThreeLayers ==
  << [origin |-> FromXy(0, 0), stride |-> 9, data |-> Repeat(TxA, 45)],
     [origin |-> FromXy(10, 0), stride |-> 9, data |-> Repeat(TxA, 45)],
     [origin |-> FromXy(0, 5), stride |-> 9, data |-> Repeat(TxA, 45)] >>

\* The last column and the last row a layer covers.
LastCol(l) == Col(l.origin) + l.stride - 1

LastRow(l) == Row(l.origin) + (Len(l.data) \div l.stride) - 1

\* x is the least (greatest) of the values f takes on 1..n.
IsLeast(x, f, n) == (\E k \in 1..n : f[k] = x) /\ (\A k \in 1..n : x <= f[k])

IsGreatest(x, f, n) == (\E k \in 1..n : f[k] = x) /\ (\A k \in 1..n : x >= f[k])

\* C22: over a non-empty sequence of well-formed layers, bounding_box returns
\* as upper-left the component-wise minimum of the origins and as lower-right
\* the component-wise maximum of the antipodes (origin.col + stride - 1,
\* origin.row + len(data)/stride - 1); for the three 9x5 layers at (0,0),
\* (10,0) and (0,5) it returns (0,0) and (18,9).
C22_BoundingBox ==
  LET n == Len(box_layers) IN
  /\ n > 0 =>
       /\ IsLeast(Col(box.upper), [k \in 1..n |-> Col(box_layers[k].origin)], n)
       /\ IsLeast(Row(box.upper), [k \in 1..n |-> Row(box_layers[k].origin)], n)
       /\ IsGreatest(Col(box.lower), [k \in 1..n |-> LastCol(box_layers[k])], n)
       /\ IsGreatest(Row(box.lower), [k \in 1..n |-> LastRow(box_layers[k])], n)
  /\ box_layers = ThreeLayers =>
       box = [upper |-> FromXy(0, 0), lower |-> FromXy(18, 9)]

\* bounding_box has been handed the three 9x5 layers.
C22_Witness == box_layers = ThreeLayers /\ box # NoBox

(***************************************************************************)
(* AnsiTty::write (tty.rs 271-329).  The call is modelled by the commands  *)
(* it sends to stdout (MoveTo, SetColors, a printed character) and the     *)
(* terminal by what it does with them.  A terminal that is handed a        *)
(* character with the cursor past the last column prints it at the start   *)
(* of the next row.  Glyphs are printable and one column wide.             *)
(***************************************************************************)
\* The longest run handed to one AnsiTty::write.
MaxRun == 3

\* The most AnsiTty::write calls in a behaviour of SpecTty.
MaxAnsiWrites == 2

\* stdout may be made to fail at the k-th command of a call, k in 1..MaxCmdFail.
MaxCmdFail == 2

\* Color::to_crossterm
ColorToCrossterm(color) ==
  CASE color = "DkBlack" -> "Black"
    [] color = "DkRed" -> "DarkRed"

\* fg.map(|c| c.map(Color::to_crossterm).unwrap_or(style::Color::Reset)), on
\* <<>> (None) or <<c>> (Some(c)), c a Color name or "None".
ToSetColor(change) ==
  IF change = <<>> THEN <<>>
  ELSE IF change[1] = "None" THEN <<"Reset">> ELSE <<ColorToCrossterm(change[1])>>

\* A write_texel that prints the character and sets no color.
WriteTexelPlain(change, c) ==
  << [op |-> "Print", c |-> IF c = "none" THEN " " ELSE c] >>

\* write_texel: the commands it sends.
WriteTexel(change, c) ==
  << [op |-> "SetColors", fg |-> ToSetColor(change.fg), bg |-> ToSetColor(change.bg)],
     [op |-> "Print", c |-> IF c = "none" THEN " " ELSE c] >>

\* A loop that never finds the cursor past the last column.
PastEdgeNever(x, width) == FALSE

\* if x >= width { break; }
PastEdge(x, width) == x >= width

\* The loop over texels[1..], from run[k] on with the cursor at column x:
\* the commands sent and the column reached.
RECURSIVE WriteRest(_, _, _, _, _)
WriteRest(prev, run, k, x, width) ==
  IF k > Len(run) \/ PastEdge(x, width) THEN [out |-> <<>>, x |-> x]
  ELSE LET r == WriteRest(run[k], run, k + 1, x + 1, width)
       IN  [out |-> WriteTexel(StyleDiff(prev.style, run[k].style), run[k].glyph) \o r.out,
            x   |-> r.x]

\* AnsiTty::write when stdout does not fail: the commands and the count.
AnsiWrite(width, height, start, run) ==
  IF run = <<>> THEN [out |-> <<>>, ret |-> 0]
  ELSE IF Col(start) >= width \/ Row(start) >= height THEN [out |-> <<>>, ret |-> 0]
  ELSE LET prev == run[1]
           first == WriteTexel([fg |-> <<TexelFg(prev)>>, bg |-> <<TexelBg(prev)>>,
                                weight |-> <<TexelWeight(prev)>>], prev.glyph)
           rest == WriteRest(prev, run, 2, Col(start) + 1, width)
       IN  [out |-> <<[op |-> "MoveTo", x |-> Col(start), y |-> Row(start)]>> \o first \o rest.out,
            ret |-> rest.x - Col(start)]

\* The terminal after one command.
TermStep(t, cmd) ==
  CASE cmd.op = "MoveTo" -> [t EXCEPT !.cursor = FromXy(cmd.x, cmd.y)]
    [] cmd.op = "SetColors" ->
         [t EXCEPT !.pen = [fg |-> IF cmd.fg = <<>> THEN t.pen.fg ELSE cmd.fg[1],
                            bg |-> IF cmd.bg = <<>> THEN t.pen.bg ELSE cmd.bg[1]]]
    [] cmd.op = "Print" ->
         LET wrap == Col(t.cursor) >= TtyWidth
             x == IF wrap THEN 0 ELSE Col(t.cursor)
             y == IF wrap THEN Min(Row(t.cursor) + 1, TtyHeight - 1) ELSE Row(t.cursor)
             at == y * TtyWidth + x + 1
         IN  [screen  |-> SubSeq(t.screen, 1, at - 1)
                            \o <<[glyph |-> cmd.c, fg |-> t.pen.fg, bg |-> t.pen.bg]>>
                            \o SubSeq(t.screen, at + 1, Len(t.screen)),
              cursor  |-> FromXy(x + 1, y),
              pen     |-> t.pen,
              touched |-> Append(t.touched, FromXy(x, y))]

\* The terminal after the first n of the commands.
RECURSIVE TermRun(_, _, _)
TermRun(t, cmds, n) == IF n = 0 THEN t ELSE TermStep(TermRun(t, cmds, n - 1), cmds[n])

\* An opaque texel in the default colors, a glyph-less one with a
\* foreground, an opaque one with a background.
TxC == TexelWithBg(TexelNew("b"), "DkRed")

Palette == {TxA, TxT, TxC}

RECURSIVE Runs(_)
Runs(n) ==
  IF n = 0 THEN {<<>>}
  ELSE LET shorter == Runs(n - 1)
       IN  shorter \cup {Append(r, t) : r \in {s \in shorter : Len(s) = n - 1}, t \in Palette}

\* Starts on the screen, right of it and below it.
Starts == {FromXy(0, 0), FromXy(1, 0), FromXy(1, 1), FromXy(TtyWidth, 0), FromXy(0, TtyHeight)}

InitTty == Init /\ viewport = FromXy(1, 1)

\* tty.write(start, run), stdout failing at the fail_at-th command if
\* there is one (0: it does not fail).
Write(start, run, fail_at) ==
  LET w == AnsiWrite(TtyWidth, TtyHeight, start, run)
      fails == fail_at \in 1..Len(w.out)
      sent == IF fails THEN SubSeq(w.out, 1, fail_at - 1) ELSE w.out
  IN  /\ ansi_count < MaxAnsiWrites
      /\ ansi_count' = ansi_count + 1
      /\ ansi_call' = [start |-> start, texels |-> run]
      /\ ansi_before' = term.screen
      /\ ansi_out' = sent
      /\ ansi_ret' = [ok |-> ~fails, n |-> IF fails THEN 0 ELSE w.ret]
      /\ term' = TermRun([term EXCEPT !.touched = <<>>], sent, Len(sent))
      /\ UNCHANGED <<main_vars, canvas_vars, style_vars, text_vars, box_vars, game_vars>>

NextTty ==
  \E start \in Starts, run \in Runs(MaxRun), fail_at \in 0..MaxCmdFail :
    Write(start, run, fail_at)

SpecTty == InitTty /\ [][NextTty]_vars

\* The last call was handed a non-empty run starting inside the viewport.
StartsInside ==
  /\ ansi_call.texels # <<>>
  /\ Col(ansi_call.start) < TtyWidth
  /\ Row(ansi_call.start) < TtyHeight

\* The screen cell at <<x, y>>.
ScreenAt(screen, x, y) == screen[y * TtyWidth + x + 1]

\* C23: AnsiTty::write never wraps.  A run of n texels starting inside the
\* viewport is drawn on the cells of row start.row at columns start.col up
\* to width - 1 only, one texel per cell from the left, and the call returns
\* min(n, width - start.col); an empty run, or one starting outside the
\* viewport, draws nothing and returns 0.  Every other cell stays as it was.
C23_WriteNeverWraps ==
  LET n == Len(ansi_call.texels)
      col == Col(ansi_call.start)
      row == Row(ansi_call.start)
      drawn == Len(term.touched)
  IN  /\ \A k \in 1..drawn : term.touched[k] = FromXy(col + k - 1, row) /\ col + k - 1 < TtyWidth
      /\ \A x \in 0..(TtyWidth - 1), y \in 0..(TtyHeight - 1) :
           (\A k \in 1..drawn : term.touched[k] # FromXy(x, y)) =>
             ScreenAt(term.screen, x, y) = ScreenAt(ansi_before, x, y)
      /\ ansi_ret.ok =>
           IF StartsInside
             THEN ansi_ret.n = Min(n, TtyWidth - col) /\ drawn = ansi_ret.n
             ELSE ansi_ret.n = 0 /\ drawn = 0

\* A run longer than the rest of its row was written and cut at the edge.
C23_Witness ==
  /\ StartsInside
  /\ ansi_ret.ok
  /\ ansi_ret.n < Len(ansi_call.texels)
  /\ ansi_ret.n > 0

\* What the screen shows of a texel: its glyph, or a space, in its colors.
Shown(t) ==
  [glyph |-> IF t.glyph = "none" THEN " " ELSE t.glyph,
   fg    |-> IF TexelFg(t) = "None" THEN "Reset" ELSE ColorToCrossterm(TexelFg(t)),
   bg    |-> IF TexelBg(t) = "None" THEN "Reset" ELSE ColorToCrossterm(TexelBg(t))]

\* The k-th SetColors command of the last call.
SetColorsOf(k) == ansi_out[2 * k]

\* C25: AnsiTty::write emits style changes by difference.  The first texel
\* of a run is written after setting both its foreground and its background
\* explicitly; each later texel is written after setting only the colors in
\* which it differs from the texel before it (none when they are equal); so
\* every texel drawn is shown with its own fg() and bg(), None being the
\* terminal's reset color, and a glyph-less texel is shown as a space.
C25_StyleByDifference ==
  (ansi_ret.ok /\ StartsInside) =>
    LET ts == ansi_call.texels
        col == Col(ansi_call.start)
        row == Row(ansi_call.start)
    IN  /\ Len(ansi_out) = 1 + 2 * ansi_ret.n
        /\ \A k \in 1..ansi_ret.n :
             /\ SetColorsOf(k).op = "SetColors"
             /\ ScreenAt(term.screen, col + k - 1, row) = Shown(ts[k])
        /\ SetColorsOf(1).fg = <<Shown(ts[1]).fg>>
        /\ SetColorsOf(1).bg = <<Shown(ts[1]).bg>>
        /\ \A k \in 2..ansi_ret.n :
             /\ SetColorsOf(k).fg =
                  IF TexelFg(ts[k]) = TexelFg(ts[k - 1]) THEN <<>> ELSE <<Shown(ts[k]).fg>>
             /\ SetColorsOf(k).bg =
                  IF TexelBg(ts[k]) = TexelBg(ts[k - 1]) THEN <<>> ELSE <<Shown(ts[k]).bg>>

\* A second call, made with other colors left set by the first, drew an
\* opaque texel and then a glyph-less one that differs from it in the
\* foreground only.
C25_Witness ==
  /\ ansi_count = 2
  /\ term.pen # TermNew.pen
  /\ ScreenAt(ansi_before, 0, 0).bg = "DarkRed"
  /\ ansi_ret.n = 2
  /\ ansi_call.texels[1] = TxA
  /\ ansi_call.texels[2] = TxT

(***************************************************************************)
(* Game::new and Game::generate_board (game/mod.rs 66-133).  SpecBoard     *)
(* creates a game with the options main accepts, lets the player set memos *)
(* on the selected card, and starts new games at every level the game can  *)
(* ask for.  The random source is an input: the coin it flips, the rule by *)
(* which it picks from a range, and the order it shuffles into.            *)
(***************************************************************************)
\* main.rs 29-40: --columns and --rows between 5 and 8, --max-card 3 to 9.
MinBoard == 5

MaxBoard == 8

MinCard == 3

MaxCard == 9

\* (self.level + 1).min(8)
TopLevel == 8

\* The largest number the model's integers hold.
IntMax == 2147483647

\* The digit keys the player sets memos with.
MemoKeys == {9}

OptionsSet ==
  { [board_dims |-> <<x, y>>, max_card_value |-> c] :
      x \in {MinBoard, MaxBoard}, y \in {MinBoard, MaxBoard}, c \in MinCard..MaxCard }

Rngs ==
  { [flip |-> FALSE, pick |-> "low", shuffle |-> "keep"],
    [flip |-> TRUE, pick |-> "high", shuffle |-> "reverse"],
    [flip |-> TRUE, pick |-> "alt", shuffle |-> "keep"] }

CardDefault == [value |-> 0, flipped |-> FALSE, compress |-> 0, memo |-> 0]

\* vec![x; n]
RepeatOf(x, n) == [i \in 1..n |-> x]

\* enum State: NewGame(u32) and GameOver(u32) carry a level, the others 0.
StateOf(kind, level) == [kind |-> kind, level |-> level]

\* Game::new
GameNew(options) ==
  [level          |-> 1,
   score          |-> 0,
   round_score    |-> 0,
   state          |-> StateOf("NewGame", 1),
   cards          |-> RepeatOf(CardDefault, options.board_dims[1] * options.board_dims[2]),
   col_hints      |-> RepeatOf(<<0, 0>>, options.board_dims[1]),
   row_hints      |-> RepeatOf(<<0, 0>>, options.board_dims[2]),
   selected_card  |-> 0,
   options        |-> options]

RECURSIVE Pow(_, _)
Pow(b, e) == IF e = 0 THEN 1 ELSE b * Pow(b, e - 1)

Maxes == <<1, 2, 4, 8, 12, 20, 40, 80>>

\* The factors of max, and whether x * coins stays within the model's
\* integers for every candidate x and every coins <= max.
MaxFits(level, max_card, len) ==
  LET shift == Pow(2, max_card - 1)
      power == Pow(len, max_card \div 2)
  IN  /\ power <= IntMax \div shift
      /\ Maxes[level] * max_card <= IntMax \div (shift * power)

\* A voltorb count without the two-fifths cap.
VoltorbsUncapped(len, level, avg_width) == level * (avg_width - 3) + len \div 5

Voltorbs(len, level, avg_width) ==
  Min((len \div 5) * 2, level * (avg_width - 3) + len \div 5)

\* rng.gen_range(lo..=hi), the n-th draw of the call.
GenRange(rng, lo, hi, n) ==
  CASE rng.pick = "low" -> lo
    [] rng.pick = "high" -> hi
    [] rng.pick = "alt" -> IF n % 2 = 1 THEN hi ELSE lo

\* The while loop of generate_board: the card values drawn, from the turn
\* of the loop that starts with the values `cards` and the product `coins`.
DrawCards(cards, coins, sum, max, max_card, room, rng) ==
  LET loop[at \in Seq(2..max_card) \X Nat] ==
        IF ~(sum > 1 /\ Len(at[1]) < room) THEN at[1]
        ELSE LET candidates == {x \in 2..max_card : x * at[2] <= max} IN
             IF candidates = {} THEN at[1]
             ELSE LET max_candidate == CHOOSE x \in candidates : \A y \in candidates : y <= x
                      value == GenRange(rng, 2, max_candidate, Len(at[1]) + 1)
                  IN  loop[<<Append(at[1], value), at[2] * value>>]
  IN  loop[<<cards, coins>>]

\* indices after indices.shuffle(&mut rng): the k-th of them, counted from 1,
\* as the place in cards counted from 1.  The order "keep" is 1, 2, ..; the
\* order "reverse" is len, len - 1, ..; the order "rotate" ends with
\* 1, 2, .., so that the places after the first voltorbs of it start at 1;
\* the order "shift" is 3, 4, .., len, 1, 2.
Shuffled(rng, len, voltorbs, k) ==
  CASE rng.shuffle = "keep" -> k
    [] rng.shuffle = "reverse" -> len + 1 - k
    [] rng.shuffle = "rotate" -> ((k - 1 + len - voltorbs) % len) + 1
    [] rng.shuffle = "shift" -> ((k + 1) % len) + 1

\* The value the fill and the two assignment loops leave at place i: the
\* k-th of the shuffled indices gets a zero when it is among the first
\* voltorbs of them, the next of the values drawn while there are any, and
\* keeps the 1 of the fill otherwise.
DealtValue(i, len, voltorbs, drawn, rng) ==
  LET k == CHOOSE j \in 1..len : Shuffled(rng, len, voltorbs, j) = i
  IN  IF k <= voltorbs THEN 0
      ELSE IF k - voltorbs <= Len(drawn) THEN drawn[k - voltorbs]
      ELSE 1

\* A hint loop that sums a line and leaves its count of zeros at 0.
HintOfSum(cards, len, rows, n, stride) ==
  LET count == IF rows THEN Cardinality({i \in 1..len : (i - 1) \div stride = n - 1})
                       ELSE Cardinality({i \in 1..len : (i - 1) % stride = n - 1})
      place(k) == IF rows THEN (n - 1) * stride + k ELSE (k - 1) * stride + n
      sum[k \in 0..len] == IF k = 0 THEN 0 ELSE sum[k - 1] + cards[place(k)].value
  IN  <<sum[count], 0>>

\* The hint loop, for line n of the rows or of the columns of a board of
\* len cards: the sum of the values of the cards of the line, which are the
\* cards i with i / stride = n - 1 or with i % stride = n - 1, and the count
\* of its zeros.
HintOf(cards, len, rows, n, stride) ==
  LET count == IF rows THEN Cardinality({i \in 1..len : (i - 1) \div stride = n - 1})
                       ELSE Cardinality({i \in 1..len : (i - 1) % stride = n - 1})
      place(k) == IF rows THEN (n - 1) * stride + k ELSE (k - 1) * stride + n
      sum[k \in 0..len] == IF k = 0 THEN 0 ELSE sum[k - 1] + cards[place(k)].value
  IN  <<sum[count], Cardinality({k \in 1..count : cards[place(k)].value = 0})>>

\* Game::generate_board.  What it reads of the game is its options, its
\* level and the lengths of its three vectors, taken once as `of`.
GameGenerateBoard(g, rng) ==
  LET of == [options |-> g.options, level |-> g.level, len |-> Len(g.cards),
             rows |-> Len(g.row_hints), cols |-> Len(g.col_hints)]
      board[at \in {of}] ==
        LET max_card == at.options.max_card_value
            avg_width == (at.options.board_dims[1] + at.options.board_dims[2]) \div 2
            len == at.len
            voltorbs == Voltorbs(len, at.level, avg_width)
            sum == at.level * (max_card - 1) + 3 * max_card
                     - (IF rng.flip THEN (max_card - 1) \div 2 ELSE 0)
            max == Maxes[at.level] * Pow(2, max_card - 1) * Pow(len, max_card \div 2)
            stride == at.options.board_dims[1]
            hinted[values \in Seq(0..max_card)] ==
              LET cards == [i \in 1..len |-> [CardDefault EXCEPT !.value = values[i]]]
              IN  [cards |-> cards,
                   row |-> [n \in 1..at.rows |-> HintOf(cards, len, TRUE, n, stride)],
                   col |-> [n \in 1..at.cols |-> HintOf(cards, len, FALSE, n, stride)]]
            filled[drawn \in Seq(2..max_card)] ==
              hinted[[i \in 1..len |-> DealtValue(i, len, voltorbs, drawn, rng)]]
        IN  filled[DrawCards(<<>>, 1, sum, max, max_card, len - voltorbs, rng)]
      dealt == board[of]
  IN  [g EXCEPT !.cards = dealt.cards,
                !.round_score = 0,
                !.row_hints = dealt.row,
                !.col_hints = dealt.col]

\* memo ^= 1 << index, on a u16.
XorBit(memo, index) ==
  IF (memo \div Pow(2, index)) % 2 = 1 THEN memo - Pow(2, index) ELSE memo + Pow(2, index)

HasMemo(g) == g # NoGame /\ \E i \in 1..Len(g.cards) : g.cards[i].memo # 0

InitBoard == Init /\ viewport = FromXy(1, 1)

\* main: game::Game::new(game::Options {..})
NewGame(options) ==
  /\ game = NoGame
  /\ game' = GameNew(options)
  /\ game_op' = [kind |-> "new", had_memo |-> FALSE]
  /\ UNCHANGED played
  /\ UNCHANGED <<main_vars, canvas_vars, style_vars, text_vars, box_vars, tty_vars>>

\* interact in State::Standby on a digit key: the memo of the selected card.
InteractMemo(k) ==
  /\ game # NoGame
  /\ game' = [game EXCEPT !.cards[game.selected_card + 1].memo = XorBit(@, k)]
  /\ game_op' = [kind |-> "memo", had_memo |-> HasMemo(game)]
  /\ UNCHANGED played
  /\ UNCHANGED <<main_vars, canvas_vars, style_vars, text_vars, box_vars, tty_vars>>

\* interact in State::NewGame(level) once no card is flipped or compressed:
\* self.level = level.max(1); self.generate_board().
InteractNewGame(level, rng) ==
  /\ game # NoGame
  /\ MaxFits(Max(level, 1), game.options.max_card_value, Len(game.cards))
  /\ game' = [GameGenerateBoard([game EXCEPT !.level = Max(level, 1)], rng)
                EXCEPT !.state = StateOf("Standby", 0)]
  /\ game_op' = [kind |-> "generate_board", had_memo |-> HasMemo(game)]
  /\ UNCHANGED played
  /\ UNCHANGED <<main_vars, canvas_vars, style_vars, text_vars, box_vars, tty_vars>>

NextBoard ==
  \/ \E options \in OptionsSet : NewGame(options)
  \/ \E k \in MemoKeys : InteractMemo(k)
  \/ \E level \in 0..TopLevel, rng \in Rngs : InteractNewGame(level, rng)

SpecBoard == InitBoard /\ [][NextBoard]_vars

\* C26: after every generate_board, at a level of 1..8 on a board of 5..8 by
\* 5..8 cards with max_card_value 3..9, every card has a value in
\* 0..max_card_value, is unflipped, uncompressed and without memo, and
\* exactly min(cards/5*2, level*(avg_width-3) + cards/5) cards have value 0.
C26_GeneratedBoard ==
  game_op.kind = "generate_board" =>
    LET len == Len(game.cards)
        avg_width == (game.options.board_dims[1] + game.options.board_dims[2]) \div 2
    IN  /\ game.level \in 1..TopLevel
        /\ len = game.options.board_dims[1] * game.options.board_dims[2]
        /\ \A i \in 1..len :
             /\ game.cards[i].value \in 0..game.options.max_card_value
             /\ ~game.cards[i].flipped
             /\ game.cards[i].compress = 0
             /\ game.cards[i].memo = 0
        /\ Cardinality({i \in 1..len : game.cards[i].value = 0})
             = Min((len \div 5) * 2, game.level * (avg_width - 3) + len \div 5)

\* A board was generated at the top level over cards that carried a memo,
\* with the cap on the voltorbs in force and with cards above 1.
C26_Witness ==
  /\ game_op.kind = "generate_board"
  /\ game_op.had_memo
  /\ game.level = TopLevel
  /\ \E i \in 1..Len(game.cards) : game.cards[i].value = game.options.max_card_value
  /\ \E i \in 1..Len(game.cards) : game.cards[i].value = 1

\* C27: render never indexes out of bounds and never panics on a slice
\* bound, for any sequence of winch and render calls with viewports of at
\* least 1x1 and well-formed layers placed anywhere, layers whose origin
\* column is inside the viewport on rows near the bottom after a resize
\* included.
C27_RenderNeverPanics == status # "panic"

\* C28: when render returns an error, the retained frame and the viewport
\* are exactly what they were before the call, in a full paint as in a
\* diffing render.
C28_ErrorLeavesCanvasUnchanged ==
  [][status' = "err" => (buffer' = buffer /\ viewport' = viewport)]_vars

\* The cells write call w covers: its row, from its start column on.
SpanEnd(w) == Col(w.start) + Len(w.texels)

\* C29: within one render the write calls are issued in row-major order.
\* The rows never decrease from call to call (a full paint writes the rows
\* 0, 1, 2, .. once each); two calls in the same row start at strictly
\* increasing columns and the later one starts at or after the end of the
\* earlier one, each span lying within the row; so no cell is written twice.
C29_WritesRowMajor ==
  /\ \A k \in 1..Len(writes) :
       /\ Len(writes[k].texels) > 0
       /\ SpanEnd(writes[k]) <= Col(viewport)
       /\ ~prior.some => writes[k].start = FromXy(0, k - 1)
  /\ \A k \in 1..(Len(writes) - 1) :
       \/ Row(writes[k].start) < Row(writes[k + 1].start)
       \/ /\ Row(writes[k].start) = Row(writes[k + 1].start)
          /\ Col(writes[k].start) < Col(writes[k + 1].start)
          /\ SpanEnd(writes[k]) <= Col(writes[k + 1].start)

\* A diffing render went through with two calls in one row and a call in a
\* row below it.
C29_Witness ==
  /\ status = "ok"
  /\ prior.some
  /\ \E k \in 1..(Len(writes) - 1) :
       /\ Row(writes[k].start) = Row(writes[k + 1].start)
       /\ \E j \in 1..Len(writes) : Row(writes[j].start) > Row(writes[k].start)

\* C30: in every reachable state every glyph-less texel of the retained
\* buffer is Texel::empty(): a transparent texel that carries a style never
\* enters the frame.
C30_GlyphLessIsEmpty ==
  \A i \in 1..Len(buffer) : buffer[i].glyph = "none" => buffer[i] = TexelEmpty

\* A render went through whose layer laid a glyph-less texel of a
\* non-default style over a cell of the frame, and the cell is retained
\* empty.
C30_Witness ==
  /\ status = "ok"
  /\ Len(layers) = 1
  /\ \E c \in ViewCols, r \in ViewRows :
       /\ InFrame(c, r)
       /\ DataIdx(layers[1], c, r) # 0
       /\ layers[1].data[DataIdx(layers[1], c, r)] = TxT
       /\ buffer[Idx(c, r)] = TexelEmpty

(***************************************************************************)
(* main (main.rs 45-91): the first render and the event loop.  The         *)
(* terminal signals a size change by queueing a Resize event, which poll   *)
(* returns as Event::Winch once main polls; the window changes size, and   *)
(* keys are pressed, while main waits in poll or sleeps.  The game is any  *)
(* game: it answers interact with any Response, and game.render gives one  *)
(* layer.                                                                  *)
(***************************************************************************)
\* The most events the terminal holds for poll.
MaxEvents == 2

\* The sizes the terminal window takes in SpecMain.
MainSizes == {FromXy(1, 1), FromXy(MaxCols, MaxRows)}

Responses == {"Quit", "WaitForInput", "WaitIgnoringInputs", "WaitForInputs"}

\* game.render(viewport)
GameRender(vp) == <<[origin |-> FromXy(0, 0), stride |-> 1, data |-> <<TxA>>]>>

WinchEvent(vp) == [kind |-> "winch", vp |-> vp]

KeyEvent == [kind |-> "key", vp |-> FromXy(0, 0)]

\* The terminal holds a size change that main has not been handed yet.
PendingWinch == \E k \in 1..Len(events) : events[k].kind = "winch"

InitMain == Init /\ viewport \in MainSizes

\* The window is resized: crossterm queues CtEvent::Resize.
Resize(vp) ==
  /\ pc = "loop"
  /\ Len(events) < MaxEvents
  /\ vp # tty_size
  /\ tty_size' = vp
  /\ events' = Append(events, WinchEvent(vp))
  /\ UNCHANGED <<pc, interact, wait, event, polled, render_log>>
  /\ UNCHANGED <<canvas_vars, style_vars, aux_vars>>

\* A key is pressed: crossterm queues CtEvent::Key.
KeyPress ==
  /\ pc = "loop"
  /\ Len(events) < MaxEvents
  /\ events' = Append(events, KeyEvent)
  /\ UNCHANGED <<pc, tty_size, interact, wait, event, polled, render_log>>
  /\ UNCHANGED <<canvas_vars, style_vars, aux_vars>>

\* canvas.render(game.render(vp), tty)? at position `at`: on an error, or a
\* panic, main ends; otherwise it goes (back) to the top of the loop.
MainRender(at, vp, fail_at) ==
  /\ pc = at
  /\ CanvasRender(GameRender(vp), fail_at)
  /\ pc' = IF status' = "ok" THEN "loop" ELSE "exit"
  /\ render_log' = [at |-> at, viewport |-> vp, tty_size |-> tty_size,
                    pending |-> PendingWinch, polled |-> polled]
  /\ UNCHANGED <<tty_size, events, interact, wait, event, polled>>

\* main.rs 54: the render before the loop, with the viewport read at 51.
FirstRender(fail_at) == MainRender("first_render", viewport, fail_at)

\* main.rs 60-66: poll returns Event::Winch(vp); viewport = vp and
\* canvas.winch(viewport).
PollWinch ==
  /\ pc = "loop"
  /\ interact
  /\ events # <<>>
  /\ Head(events).kind = "winch"
  /\ CanvasWinch(Head(events).vp)
  /\ events' = Tail(events)
  /\ wait' = FALSE
  /\ pc' = "winch_render"
  /\ polled' = TRUE
  /\ UNCHANGED <<tty_size, interact, event, render_log>>

\* main.rs 64: the render after the winch; `continue`.
WinchRender(fail_at) == MainRender("winch_render", viewport, fail_at)

\* main.rs 60-67: poll returns a key, or None when it times out (it waits
\* for an event without end when `wait` is None).
PollEvent ==
  /\ pc = "loop"
  /\ interact
  /\ \/ /\ events # <<>>
        /\ Head(events).kind = "key"
        /\ event' = Head(events)
        /\ events' = Tail(events)
     \/ /\ events = <<>>
        /\ wait
        /\ event' = NoEvent
        /\ UNCHANGED events
  /\ wait' = FALSE
  /\ pc' = "interact"
  /\ polled' = TRUE
  /\ UNCHANGED <<tty_size, interact, render_log>>
  /\ UNCHANGED <<canvas_vars, style_vars, aux_vars>>

\* main.rs 60: tty.poll(..)? fails.
PollFails ==
  /\ pc = "loop"
  /\ interact
  /\ pc' = "exit"
  /\ wait' = FALSE
  /\ polled' = TRUE
  /\ UNCHANGED <<tty_size, events, interact, event, render_log>>
  /\ UNCHANGED <<canvas_vars, style_vars, aux_vars>>

\* main.rs 68-74: inputs are ignored; main sleeps for `wait`, does not poll,
\* and hands the game no event.
Sleep ==
  /\ pc = "loop"
  /\ ~interact
  /\ wait' = FALSE
  /\ interact' = TRUE
  /\ event' = NoEvent
  /\ pc' = "interact"
  /\ polled' = FALSE
  /\ UNCHANGED <<tty_size, events, render_log>>
  /\ UNCHANGED <<canvas_vars, style_vars, aux_vars>>

\* main.rs 76-86: match game.interact(event).
Interact(response) ==
  /\ pc = "interact"
  /\ pc' = IF response = "Quit" THEN "exit" ELSE "render"
  /\ wait' = IF response \in {"WaitIgnoringInputs", "WaitForInputs"} THEN TRUE ELSE wait
  /\ interact' = IF response = "WaitIgnoringInputs" THEN FALSE
                 ELSE IF response = "WaitForInputs" THEN TRUE ELSE interact
  /\ UNCHANGED <<tty_size, events, event, polled, render_log>>
  /\ UNCHANGED <<canvas_vars, style_vars, aux_vars>>

\* main.rs 88: canvas.render(game.render(canvas.viewport()), tty)?
LoopRender(fail_at) == MainRender("render", viewport, fail_at)

NextMain ==
  \/ \E vp \in MainSizes : Resize(vp)
  \/ KeyPress
  \/ \E fail_at \in 0..1 : FirstRender(fail_at)
  \/ PollWinch
  \/ \E fail_at \in 0..1 : WinchRender(fail_at)
  \/ PollEvent
  \/ PollFails
  \/ Sleep
  \/ \E response \in Responses : Interact(response)
  \/ \E fail_at \in 0..1 : LoopRender(fail_at)

SpecMain == InitMain /\ [][NextMain]_vars

\* C24: in the main loop, whenever the terminal has signalled a size
\* change, canvas.winch is called with the new viewport before the next
\* canvas.render: no render is performed with the stale viewport between
\* the size change and the winch, also while the game has asked for
\* inputs to be ignored.
C24_WinchBeforeRender ==
  render_log.at # "none" =>
    /\ ~render_log.pending
    /\ render_log.viewport = render_log.tty_size

(***************************************************************************)
(* Game::interact (game/mod.rs 152-322).  The events are the inputs: no    *)
(* event, a size change, the four arrow keys, Enter, the digit 9, another  *)
(* glyph, and q.  The random source of generate_board is an input of the   *)
(* call that ends the NewGame animation.                                   *)
(***************************************************************************)
\* The compress at which a card turns over (card.compress == 4).
FullCompress == 4

GameEvents == {"None", "Winch", "Left", "Right", "Up", "Down", "Enter", "9", "x", "q"}

ArrowKeys == {"Left", "Right", "Up", "Down"}

\* Key::Glyph(k @ '0'..='9'): k as u8 - b'0'
DigitIndex(key) == 9

\* Key::Left, Key::Right, Key::Up, Key::Down in Standby: the new selected_card.
SelectedAfter(key, sel, stride, len) ==
  CASE key = "Left" -> IF sel % stride = 0 THEN sel + (stride - 1) ELSE sel - 1
    [] key = "Right" -> IF (sel + 1) % stride = 0 THEN (sel + 1) - stride ELSE sel + 1
    [] key = "Up" -> IF sel >= stride THEN sel - stride ELSE len - (stride - (sel % stride))
    [] key = "Down" -> IF sel + stride > len THEN (sel + stride) % stride ELSE sel + stride

\* A turn that puts the card face down one step early.
NewGameCardEarly(c) ==
  IF ~c.flipped /\ c.compress > 0 THEN [c EXCEPT !.compress = @ - 1]
  ELSE IF c.flipped
    THEN [c EXCEPT !.compress = @ + 1, !.flipped = (c.compress + 2 # FullCompress)]
    ELSE c

\* One card's turn in the loop of State::NewGame: a flipped card closes up
\* and turns face down, a face-down card opens again.
NewGameCard(c) ==
  IF ~c.flipped /\ c.compress > 0 THEN [c EXCEPT !.compress = @ - 1]
  ELSE IF c.flipped
    THEN [c EXCEPT !.compress = @ + 1, !.flipped = (c.compress + 1 # FullCompress)]
    ELSE c

\* Whether that turn clears `done`.
NewGameBusy(c) ==
  IF ~c.flipped /\ c.compress > 0 THEN c.compress - 1 # 0 ELSE c.flipped

\* A turn of the loop of State::GameOver in which a flipped card stays closed.
GameOverCardHeld(c) ==
  IF ~c.flipped
    THEN [c EXCEPT !.compress = @ + 1, !.flipped = (c.compress + 1 = FullCompress)]
    ELSE c

\* One card's turn in the loop of State::GameOver: a face-down card closes
\* up and turns face up, a flipped card opens again.
GameOverCard(c) ==
  IF c.flipped /\ c.compress > 0 THEN [c EXCEPT !.compress = @ - 1]
  ELSE IF ~c.flipped
    THEN [c EXCEPT !.compress = @ + 1, !.flipped = (c.compress + 1 = FullCompress)]
    ELSE c

GameOverBusy(c) ==
  IF c.flipped /\ c.compress > 0 THEN c.compress - 1 # 0 ELSE ~c.flipped

\* self.level = level.max(1)
LevelOfNewGame(level) == Max(level, 1)

\* State::GameOver((flipped as u32 - 1).min(self.level))
LevelAfterGameOver(flipped, level) == Min(flipped - 1, level)

\* A level-up without the cap.
LevelRaised(level) == level + 1

\* State::NewGame((self.level + 1).min(8))
LevelAfterLevelUp(level) == Min(level + 1, TopLevel)

\* A round score multiplied as it stands, without the step from 0 to 1.
ScoreTimes(round_score, value) == round_score * value

\* if self.round_score == 0 { self.round_score = 1 }; self.round_score *= value
ScoreAfterFlip(round_score, value) ==
  (IF round_score = 0 THEN 1 ELSE round_score) * value

\* The outcome of an interact call: the game after it, what it returned,
\* whether it panicked on an index, whether it ran generate_board.
Outcome(g, response, panic, generated) ==
  [game |-> g, response |-> response, panic |-> panic, generated |-> generated]

\* (State::NewGame(level), _)
InteractInNewGame(g, rng) ==
  LET len == Len(g.cards)
      cards == [i \in 1..len |-> NewGameCard(g.cards[i])]
      done == \A i \in 1..len : ~NewGameBusy(g.cards[i])
      stepped == [g EXCEPT !.cards = cards]
  IN  IF ~done THEN Outcome(stepped, "WaitIgnoringInputs", FALSE, FALSE)
      ELSE Outcome([GameGenerateBoard([stepped EXCEPT !.level = LevelOfNewGame(g.state.level)],
                                      rng)
                      EXCEPT !.state = StateOf("Standby", 0)],
                   "WaitForInput", FALSE, TRUE)

\* (State::Standby, Some(Event::Key { key, .. }))
InteractInStandby(g, key) ==
  LET len == Len(g.cards)
      stride == g.options.board_dims[1]
      sel == g.selected_card
  IN  CASE key \in ArrowKeys ->
             Outcome([g EXCEPT !.selected_card = SelectedAfter(key, sel, stride, len)],
                     "WaitForInput", FALSE, FALSE)
        [] key = "Enter" ->
             IF sel >= len THEN Outcome(g, "WaitForInput", TRUE, FALSE)
             ELSE IF ~g.cards[sel + 1].flipped
               THEN Outcome([g EXCEPT !.state = StateOf("Flipping", 0),
                                      !.cards[sel + 1].compress = @ + 1],
                            "WaitIgnoringInputs", FALSE, FALSE)
               ELSE Outcome(g, "WaitForInput", FALSE, FALSE)
        [] key = "9" ->
             IF sel >= len THEN Outcome(g, "WaitForInput", TRUE, FALSE)
             ELSE Outcome([g EXCEPT !.cards[sel + 1].memo = XorBit(@, DigitIndex(key))],
                          "WaitForInput", FALSE, FALSE)
        [] OTHER -> Outcome(g, "WaitForInput", FALSE, FALSE)

\* (State::Flipping, _)
InteractInFlipping(g) ==
  LET len == Len(g.cards)
      sel == g.selected_card
      card == g.cards[sel + 1]
  IN  IF card.flipped
      THEN LET closed == [g EXCEPT !.cards[sel + 1].compress = @ - 1] IN
           IF card.compress - 1 # 0 THEN Outcome(closed, "WaitIgnoringInputs", FALSE, FALSE)
           ELSE IF card.value = 0
             THEN LET flipped == Cardinality({i \in 1..len : closed.cards[i].flipped}) IN
                  Outcome([closed EXCEPT
                             !.state = StateOf("GameOver", LevelAfterGameOver(flipped, g.level))],
                          "WaitForInputs", FALSE, FALSE)
           ELSE LET scored == [closed EXCEPT
                                 !.round_score = ScoreAfterFlip(g.round_score, card.value)]
                IN  IF ~\E i \in 1..len : scored.cards[i].value > 1 /\ ~scored.cards[i].flipped
                    THEN Outcome([scored EXCEPT !.state = StateOf("LevelUp", 0)],
                                 "WaitForInputs", FALSE, FALSE)
                    ELSE Outcome([scored EXCEPT !.state = StateOf("Standby", 0)],
                                 "WaitForInput", FALSE, FALSE)
      ELSE Outcome([g EXCEPT !.cards[sel + 1].compress = @ + 1,
                             !.cards[sel + 1].flipped = (card.compress + 1 = FullCompress)],
                   "WaitIgnoringInputs", FALSE, FALSE)

\* (State::GameOver(level), _)
InteractInGameOver(g) ==
  LET len == Len(g.cards)
      cards == [i \in 1..len |-> GameOverCard(g.cards[i])]
      done == \A i \in 1..len : ~GameOverBusy(g.cards[i])
      stepped == [g EXCEPT !.cards = cards]
  IN  IF ~done THEN Outcome(stepped, "WaitIgnoringInputs", FALSE, FALSE)
      ELSE Outcome([stepped EXCEPT !.state = StateOf("NewGame", g.state.level)],
                   "WaitForInputs", FALSE, FALSE)

\* (State::LevelUp, _)
InteractInLevelUp(g) ==
  Outcome([g EXCEPT !.score = g.round_score,
                    !.state = StateOf("NewGame", LevelAfterLevelUp(g.level))],
          "WaitForInputs", FALSE, FALSE)

\* Game::interact
GameInteract(g, ev, rng) ==
  CASE ev = "q" -> Outcome(g, "Quit", FALSE, FALSE)
    [] ev # "q" /\ g.state.kind = "NewGame" -> InteractInNewGame(g, rng)
    [] ev # "q" /\ g.state.kind = "Standby" ->
         IF ev \in {"None", "Winch"} THEN Outcome(g, "WaitForInput", FALSE, FALSE)
         ELSE InteractInStandby(g, ev)
    [] ev # "q" /\ g.state.kind = "Flipping" -> InteractInFlipping(g)
    [] ev # "q" /\ g.state.kind = "GameOver" -> InteractInGameOver(g)
    [] ev # "q" /\ g.state.kind = "LevelUp" -> InteractInLevelUp(g)

\* The bounds of the play: the keys pressed in Standby under SpecKeys, the
\* boards generated under SpecRow and under SpecClimb.
MaxKeys == 3

MaxBoards == 3

MaxClimb == 10

\* The smallest game main accepts: --columns 5 --rows 5 --max-card 3.
PlayOptions == [board_dims |-> <<MinBoard, MinBoard>>, max_card_value |-> MinCard]

\* Three outcomes of the random source: the highest cards, dealt onto the
\* first places of the top row; high and low cards in turn, dealt likewise;
\* the lowest cards, with the voltorbs from the third place of the top row on
\* and cards of value 1 before them.
PlayRngs ==
  { [flip |-> FALSE, pick |-> "high", shuffle |-> "rotate"],
    [flip |-> TRUE, pick |-> "alt", shuffle |-> "rotate"],
    [flip |-> FALSE, pick |-> "low", shuffle |-> "shift"] }

\* The keys of a player who stays in the top row.
RowEvents == {"None", "Right", "Enter", "q"}

\* The outcomes of the random source a call can meet: it draws only in
\* State::NewGame.
Draws(g, rngs) ==
  IF g # NoGame /\ g.state.kind = "NewGame" THEN rngs
  ELSE {CHOOSE rng \in rngs : TRUE}

KeyPressed(g, ev) == g.state.kind = "Standby" /\ ev \notin {"None", "Winch", "q"}

InitGame == Init /\ viewport = FromXy(1, 1)

\* main.rs 76: game.interact(event).  A panic ends the program.
InteractCall(ev, rng) ==
  /\ game # NoGame
  /\ game_op.kind # "panic"
  /\ \E out \in {GameInteract(game, ev, rng)} :
       /\ game' = out.game
       /\ game_op' = [kind |-> IF out.panic THEN "panic"
                               ELSE IF out.generated THEN "generate_board" ELSE "interact",
                      had_memo |-> HasMemo(game),
                      event |-> ev,
                      response |-> out.response]
       /\ played' = [boards |-> Min(played.boards + (IF out.generated THEN 1 ELSE 0), MaxClimb),
                     keys |-> Min(played.keys + (IF KeyPressed(game, ev) THEN 1 ELSE 0), MaxKeys)]
  /\ UNCHANGED <<main_vars, canvas_vars, style_vars, text_vars, box_vars, tty_vars>>

\* Any event, while the player has keys left.
InteractKeys(ev, rng) ==
  /\ game # NoGame
  /\ KeyPressed(game, ev) => played.keys < MaxKeys
  /\ InteractCall(ev, rng)

\* The events of the top row, while there are boards left.
InteractRow(ev, rng) ==
  /\ game # NoGame
  /\ GameInteract(game, ev, rng).generated => played.boards < MaxBoards
  /\ InteractCall(ev, rng)

NextKeys ==
  \/ NewGame(PlayOptions)
  \/ \E ev \in GameEvents, rng \in Draws(game, PlayRngs) : InteractKeys(ev, rng)

NextRow ==
  \/ NewGame(PlayOptions)
  \/ \E ev \in RowEvents, rng \in Draws(game, PlayRngs) : InteractRow(ev, rng)

\* A board of 8 columns, whose top row holds the cards above 1 of every
\* level, and a player who walks it to the right and flips every card they
\* stand on before moving on.
ClimbOptions == [board_dims |-> <<MaxBoard, MinBoard>>, max_card_value |-> MinCard]

ClimbRngs ==
  { [flip |-> FALSE, pick |-> "high", shuffle |-> "rotate"],
    [flip |-> FALSE, pick |-> "low", shuffle |-> "shift"] }

ClimbEvents == {"None", "Right", "Enter"}

InteractClimb(ev, rng) ==
  /\ game # NoGame
  /\ GameInteract(game, ev, rng).generated => played.boards < MaxClimb
  /\ (game.state.kind = "Standby" /\ ev = "Right")
       => game.cards[game.selected_card + 1].flipped
  /\ InteractCall(ev, rng)

NextClimb ==
  \/ NewGame(ClimbOptions)
  \/ \E ev \in ClimbEvents, rng \in Draws(game, ClimbRngs) : InteractClimb(ev, rng)

SpecClimb == InitGame /\ [][NextClimb]_vars

\* The cards of g that are flipped.
Flipped(g) == {i \in 1..Len(g.cards) : g.cards[i].flipped}

\* C32: the level stays in 1..8 across any sequence of interact calls.  A
\* level-up asks for a new game at min(level + 1, 8); a game over asks for
\* one at min(flipped cards - 1, level), which the new game takes as
\* max(1, that), never above the level before; generate_board runs at the
\* level asked for, raised to 1 if it is 0, which is within 1..8.
C32_LevelInRange ==
  [][/\ game' # NoGame => game'.level \in 1..TopLevel
     /\ game # NoGame =>
          /\ game_op'.kind = "generate_board" =>
               /\ game.state.kind = "NewGame"
               /\ game.state.level \in 0..TopLevel
               /\ game'.level = Max(1, game.state.level)
          /\ (game.state.kind = "LevelUp" /\ game'.state # game.state) =>
               game'.state = StateOf("NewGame", Min(game.level + 1, TopLevel))
          /\ (game.state.kind = "Flipping" /\ game'.state.kind = "GameOver") =>
               /\ game'.state.level = Min(Cardinality(Flipped(game')) - 1, game.level)
               /\ Max(1, game'.state.level) <= game.level
          /\ (game.state.kind = "GameOver" /\ game'.state # game.state) =>
               game'.state = StateOf("NewGame", game.state.level)
          /\ game_op'.kind # "generate_board" => game'.level = game.level
    ]_vars

\* A new game is asked for at level 8 after a level-up at level 8, in a
\* play that has also lost a board: eight boards were won in a row, and
\* more than eight were generated.
C32_Witness ==
  /\ game # NoGame
  /\ game.state = StateOf("NewGame", TopLevel)
  /\ game.level = TopLevel
  /\ game.score = game.round_score
  /\ game.score > 0
  /\ played.boards > TopLevel

SpecKeys == InitGame /\ [][NextKeys]_vars

SpecRow == InitGame /\ [][NextRow]_vars

\* C31: after any sequence of interact calls with any events, the selection
\* is a place of the board, selected_card < cards.len(), so that Enter and
\* the digit keys in Standby never index the cards out of bounds.
C31_SelectionInBounds ==
  game # NoGame => (game.selected_card < Len(game.cards) /\ game_op.kind # "panic")

\* C33: after any sequence of interact calls every card's compress is within
\* 0..4, a card's flipped flag changes only in a call that brings its
\* compress to 4, and in Standby every card has compress 0.
C33_Compress ==
  [][game' # NoGame =>
       /\ \A i \in 1..Len(game'.cards) : game'.cards[i].compress \in 0..FullCompress
       /\ game'.state.kind = "Standby" =>
            \A i \in 1..Len(game'.cards) : game'.cards[i].compress = 0
       /\ game # NoGame =>
            \A i \in 1..Len(game'.cards) :
               game'.cards[i].flipped # game.cards[i].flipped =>
                 (game.cards[i].compress = FullCompress - 1
                    /\ game'.cards[i].compress = FullCompress)
    ]_vars

\* The new game after a level-up, at the call that turns the flipped cards
\* face down next to cards that were never flipped.
C33_Witness ==
  /\ game # NoGame
  /\ game.state.kind = "NewGame"
  /\ game.score > 0
  /\ \E i \in 1..Len(game.cards) :
       game.cards[i].compress = FullCompress /\ ~game.cards[i].flipped
  /\ \E i \in 1..Len(game.cards) :
       game.cards[i].compress = 0 /\ ~game.cards[i].flipped

\* The play of SpecRow over fewer boards and two outcomes of the random
\* source: one board that can be won and one that is lost at the third card.
MaxRounds == 2

InteractRound(ev, rng) ==
  /\ game # NoGame
  /\ GameInteract(game, ev, rng).generated => played.boards < MaxRounds
  /\ InteractCall(ev, rng)

NextRound ==
  \/ NewGame(PlayOptions)
  \/ \E ev \in RowEvents, rng \in Draws(game, ClimbRngs) : InteractRound(ev, rng)

\* The calls with an event other than q, made again and again.
InteractAgain ==
  \E ev \in RowEvents \ {"q"}, rng \in Draws(game, ClimbRngs) : InteractRound(ev, rng)

SpecRound == InitGame /\ [][NextRound]_vars

SpecRoundFair == SpecRound /\ WF_vars(InteractAgain)

AllCards(g, flipped) ==
  \A i \in 1..Len(g.cards) : g.cards[i].flipped = flipped /\ g.cards[i].compress = 0

InState(kind) == game # NoGame /\ game.state.kind = kind

\* C34: the animations end.  Under repeated interact calls with events
\* other than q, Flipping is left for Standby, GameOver or LevelUp; GameOver
\* reaches NewGame with every card flipped and compress 0; NewGame reaches
\* Standby with every card face down, compress 0, on a freshly generated
\* board (while the play has boards left); LevelUp reaches NewGame in one
\* call.
C34_AnimationsEnd ==
  /\ InState("Flipping") ~> (InState("Standby") \/ InState("GameOver") \/ InState("LevelUp"))
  /\ InState("GameOver") ~> (InState("NewGame") /\ AllCards(game, TRUE))
  /\ (InState("NewGame") /\ played.boards < MaxRounds)
       ~> (InState("Standby") /\ AllCards(game, FALSE) /\ game_op.kind = "generate_board")
  /\ [][(InState("LevelUp") /\ game_op'.event # "q") => game'.state.kind = "NewGame"]_vars

\* A level-up has been answered: the new game it asked for is at its first
\* call, with flipped cards to turn down.
C34_Witness ==
  /\ InState("NewGame")
  /\ game.score > 0
  /\ game.score = game.round_score
  /\ \E i \in 1..Len(game.cards) : game.cards[i].flipped /\ game.cards[i].compress = 0
  /\ \E i \in 1..Len(game.cards) : ~game.cards[i].flipped

\* The cards of row n or of column n of the board, as places counted from 1.
LineOf(g, rows, n) ==
  LET stride == g.options.board_dims[1]
  IN  {i \in 1..Len(g.cards) :
         IF rows THEN (i - 1) \div stride = n - 1 ELSE (i - 1) % stride = n - 1}

RECURSIVE ValueSum(_, _)
ValueSum(g, places) ==
  IF places = {} THEN 0
  ELSE LET i == CHOOSE j \in places : TRUE
       IN  g.cards[i].value + ValueSum(g, places \ {i})

\* What a hint says of its line: the sum of the values and the count of
\* the zeros.
HintsMatch(g) ==
  /\ \A n \in 1..Len(g.row_hints) :
       g.row_hints[n] = <<ValueSum(g, LineOf(g, TRUE, n)),
                          Cardinality({i \in LineOf(g, TRUE, n) : g.cards[i].value = 0})>>
  /\ \A n \in 1..Len(g.col_hints) :
       g.col_hints[n] = <<ValueSum(g, LineOf(g, FALSE, n)),
                          Cardinality({i \in LineOf(g, FALSE, n) : g.cards[i].value = 0})>>

ValuesOf(g) == [i \in 1..Len(g.cards) |-> g.cards[i].value]

\* C35: the hints match the board.  From the end of a generate_board call
\* on, every row and column hint is the sum of the values of its line and
\* the count of its zeros; and a call that does not run generate_board
\* (a move, a flip, a memo, a step of an animation) changes neither the
\* values of the cards nor the hints.
C35_HintsMatchBoard ==
  /\ []((game # NoGame /\ played.boards > 0) => HintsMatch(game))
  /\ [][(game # NoGame /\ game_op'.kind # "generate_board")
          => /\ ValuesOf(game') = ValuesOf(game)
             /\ game'.row_hints = game.row_hints
             /\ game'.col_hints = game.col_hints]_vars

\* On a generated board the player has moved, set a memo and flipped a
\* card, and a line of the board holds a voltorb.
C35_Witness ==
  /\ InState("Standby")
  /\ played.boards > 0
  /\ game.selected_card # 0
  /\ \E i \in 1..Len(game.cards) : game.cards[i].memo # 0
  /\ \E i \in 1..Len(game.cards) : game.cards[i].flipped /\ game.cards[i].compress = 0
  /\ \E n \in 1..Len(game.row_hints) : game.row_hints[n][2] > 0 /\ game.row_hints[n][1] > 0

RECURSIVE ValueProduct(_, _)
ValueProduct(g, places) ==
  IF places = {} THEN 1
  ELSE LET i == CHOOSE j \in places : TRUE
       IN  g.cards[i].value * ValueProduct(g, places \ {i})

SelectedIs(g, flipped) ==
  /\ g.selected_card < Len(g.cards)
  /\ g.cards[g.selected_card + 1].flipped = flipped

\* C36: each card is scored at most once.  In Standby round_score is the
\* product of the values of the flipped cards, and 0 when none is flipped;
\* Enter on a card that is already flipped changes nothing of the game;
\* and the flip of a card of value 0 ends in GameOver with round_score
\* as it was.
C36_ScoredOnce ==
  /\ [](InState("Standby")
          => game.round_score = IF Flipped(game) = {} THEN 0
                                ELSE ValueProduct(game, Flipped(game)))
  /\ [][(InState("Standby") /\ game_op'.event = "Enter" /\ SelectedIs(game, TRUE))
          => game' = game]_vars
  /\ [][(InState("Flipping") /\ game.cards[game.selected_card + 1].value = 0)
          => /\ game'.round_score = game.round_score
             /\ game'.state.kind \in {"Flipping", "GameOver"}]_vars

\* On the first board the player has pressed Enter twice on the first
\* card: it is flipped, and scored once.
C36_Witness ==
  /\ InState("Standby")
  /\ played.boards = 1
  /\ played.keys = 2
  /\ game.selected_card = 0
  /\ Flipped(game) = {1}
  /\ game.cards[1].value > 1
  /\ game.round_score = game.cards[1].value
  /\ game_op.event = "Enter"

\* C37: the total score never decreases.  A call in a state other than
\* LevelUp (a move, a flip, a memo, a step of an animation, a game over)
\* leaves score as it was, and the call in LevelUp leaves it at least as
\* large as it was.
C37_ScoreNeverDecreases ==
  [][game # NoGame
       => /\ game.state.kind # "LevelUp" => game'.score = game.score
          /\ game'.score >= game.score]_vars

=============================================================================
